---------------------------- MODULE Spec2Model ----------------------------
(***************************************************************************)
(* A model of encfs-afero: an afero filesystem that encrypts file content  *)
(* with AES-CTR (per-file IV kept in a sidecar "<name>.__encfile") and,    *)
(* optionally, file names with AES-GCM.                                    *)
(*                                                                         *)
(* Bytes are modelled as cells [v, ks, j]: v is the plain value, ks the    *)
(* set of AES keystream bytes XORed into it (AES is an uninterpreted       *)
(* injective function: its output byte j for counter block c under key k   *)
(* is the atom <<k, c, j>>, and XOR with it toggles the atom), j the JSON  *)
(* record a sidecar's text stands for.                                     *)
(***************************************************************************)
EXTENDS Integers, Sequences, FiniteSets, TLC

(***************************************************************************)
(* Bounds of the model.                                                    *)
(***************************************************************************)
MaxHandles == 2
MaxFileLen == 18
MaxInodes == 8
MaxCalls == 4
MaxFsCalls == 3
MaxOpeners == 2
MaxNonceCalls == 2
MaxCacheCalls == 3
MaxDirCalls == 4
MaxLegacyCalls == 3
MaxKsOffset == 33
MaxKsLen == 18
MaxNameCalls == 3

(***************************************************************************)
(* Program constants.                                                      *)
(***************************************************************************)
BlockSize == 16
ByteMod == 256
U64Bytes == 8

\* the value of body for x = v
Let(v, body(_)) == body(v)

Min(a, b) == IF a < b THEN a ELSE b
Max(a, b) == IF a > b THEN a ELSE b

(***************************************************************************)
(* Go's integer division and remainder truncate toward zero.               *)
(***************************************************************************)
GoDiv(a, b) == IF a >= 0 THEN a \div b ELSE -((-a) \div b)
GoMod(a, b) == a - b * GoDiv(a, b)

(***************************************************************************)
(* uint64 values as 8 big-endian bytes (binary.BigEndian.Uint64).          *)
(***************************************************************************)
RECURSIVE U64FromNat(_, _)
U64FromNat(n, len) ==
    IF len = 0 THEN <<>>
    ELSE Append(U64FromNat(n \div ByteMod, len - 1), n % ByteMod)

ToU64(n) == U64FromNat(n, U64Bytes)

MaxUint64 == [i \in 1 .. U64Bytes |-> ByteMod - 1]

\* a + b + carry over the low k bytes (big-endian), modulo 256^k
RECURSIVE U64AddC(_, _, _, _)
U64AddC(a, b, k, carry) ==
    IF k = 0 THEN a
    ELSE Let(a[k] + b[k] + carry, LAMBDA s :
             U64AddC([a EXCEPT ![k] = s % ByteMod], b, k - 1, s \div ByteMod))

U64Add(a, b) == U64AddC(a, b, U64Bytes, 0)

\* a - b - borrow over the low k bytes (big-endian), modulo 256^k
RECURSIVE U64SubB(_, _, _, _)
U64SubB(a, b, k, borrow) ==
    IF k = 0 THEN a
    ELSE Let(a[k] - b[k] - borrow, LAMBDA d :
             U64SubB([a EXCEPT ![k] = d % ByteMod], b, k - 1,
                     IF d < 0 THEN 1 ELSE 0))

U64Sub(a, b) == U64SubB(a, b, U64Bytes, 0)

RECURSIVE U64LeFrom(_, _, _)
U64LeFrom(a, b, i) ==
    IF i > U64Bytes THEN TRUE
    ELSE IF a[i] < b[i] THEN TRUE
    ELSE IF a[i] > b[i] THEN FALSE
    ELSE U64LeFrom(a, b, i + 1)

U64Le(a, b) == U64LeFrom(a, b, 1)

(***************************************************************************)
(* nonceAdd(nonce, incrementValue): the 16-byte counter block.             *)
(***************************************************************************)
\* a nonceAdd whose low half restarts at zero whenever it overflows
nonceAddLowReset(nonce, incrementValue) ==
    IF U64Le(U64Sub(MaxUint64, SubSeq(nonce, 9, 16)), incrementValue)
    THEN U64Add(SubSeq(nonce, 1, 8), ToU64(1)) \o ToU64(0)
    ELSE SubSeq(nonce, 1, 8) \o U64Add(SubSeq(nonce, 9, 16), incrementValue)

nonceAdd(nonce, incrementValue) ==
    Let(SubSeq(nonce, 1, 8), LAMBDA n1 :
    Let(SubSeq(nonce, 9, 16), LAMBDA n2 :
    Let(U64Sub(MaxUint64, n2), LAMBDA leftToMax :
        IF U64Le(leftToMax, incrementValue)
        THEN U64Add(n1, ToU64(1))
             \o U64Sub(incrementValue, U64Add(leftToMax, ToU64(1)))
        ELSE n1 \o U64Add(n2, incrementValue))))

(***************************************************************************)
(* Cells and XOR.                                                          *)
(***************************************************************************)
NoJson == <<>>

PlainCell(b) == [v |-> b, ks |-> {}, j |-> NoJson]

RECURSIVE BitXor(_, _)
BitXor(a, b) ==
    IF a = 0 THEN b
    ELSE IF b = 0 THEN a
    ELSE ((a + b) % 2) + 2 * BitXor(a \div 2, b \div 2)

SymDiff(s, t) == (s \ t) \cup (t \ s)

XorCell(a, b) ==
    [v |-> BitXor(a.v, b.v), ks |-> SymDiff(a.ks, b.ks),
     j |-> IF b.j = NoJson THEN a.j ELSE IF a.j = NoJson THEN b.j ELSE NoJson]

\* p[i] ^ encryptedBytes[i] for i < n; the other bytes of p are kept
XorPrefix(p, ksBytes, n) ==
    [i \in 1 .. Len(p) |-> IF i <= n THEN XorCell(p[i], ksBytes[i]) ELSE p[i]]

(***************************************************************************)
(* aes.NewCipher(key) and cipher.Encrypt(dst, counterBlock).               *)
(***************************************************************************)
NoKey == [id |-> "nil", len |-> 0]

AesKeyOk(key) == key.len \in {16, 24, 32}

AesBlock(key, counterBlock) ==
    [j \in 1 .. BlockSize |->
        [v |-> 0, ks |-> {<<key.id, counterBlock, j - 1>>}, j |-> NoJson]]

RECURSIVE Blocks(_, _, _, _)
Blocks(key, iv, blockOffset, blocksCount) ==
    IF blocksCount <= 0 THEN <<>>
    ELSE Blocks(key, iv, blockOffset, blocksCount - 1)
         \o AesBlock(key, nonceAdd(iv, ToU64(blocksCount - 1 + blockOffset)))

\* the keystream taken from the start of the first block
KeystreamFromBlockStart(key, iv, offset, len) ==
    [err |-> "nil",
     bytes |-> SubSeq(Blocks(key, iv, GoDiv(offset, BlockSize),
                             GoDiv(len + BlockSize - 1, BlockSize)),
                      1, len)]

(***************************************************************************)
(* generateCtrEncryptBytes(key, iv, offset, len): [err, bytes].  A slice   *)
(* expression out of range panics.                                         *)
(***************************************************************************)
generateCtrEncryptBytes(key, iv, offset, len) ==
    Let(offset + len, LAMBDA endOffset :
    Let(GoDiv(offset, BlockSize), LAMBDA blockOffset :
    Let(blockOffset * BlockSize, LAMBDA encryptStartOffset :
    Let(
            GoDiv(endOffset, BlockSize) * BlockSize
            + (IF GoMod(endOffset, BlockSize) > 0 THEN BlockSize ELSE 0),
    LAMBDA encryptEndOffset :
    Let(GoDiv(encryptEndOffset - encryptStartOffset, BlockSize), LAMBDA blocksCount :
    Let(offset - encryptStartOffset, LAMBDA lo :
    Let(offset - encryptStartOffset + len, LAMBDA hi :
        IF ~AesKeyOk(key) THEN [err |-> "aes.KeySizeError", bytes |-> <<>>]
        ELSE IF blocksCount < 0 \/ lo < 0 \/ hi < lo
                \/ hi > Max(blocksCount, 0) * BlockSize
        THEN [err |-> "panic", bytes |-> <<>>]
        ELSE [err |-> "nil",
              bytes |-> SubSeq(Blocks(key, iv, blockOffset, blocksCount),
                               lo + 1, hi)])))))))

(***************************************************************************)
(* Strings that name files.  A string is the non-empty sequence of its     *)
(* "/"-separated segments (strings.Split(s, "/")); a segment is a sequence *)
(* of tokens: <<"c", x>> the text x, <<"ext", "">> the text ".__encfile",  *)
(* <<"mark", "">> the text "__ENCFS__", <<"nul", "">> a NUL byte and       *)
(* <<"b64", <<key, iv, seg>>>> the base64url text of seg sealed under      *)
(* (key, iv).                                                              *)
(***************************************************************************)
EncFileExt == <<"ext", "">>
ENCRYPTED_FILE_NAME_PREFIX == <<"mark", "">>
NulTok == <<"nul", "">>
Chr(x) == <<"c", x>>

EmptySeg == <<>>
DotSeg == <<Chr(".")>>
DotDotSeg == <<Chr("."), Chr(".")>>

EmptyStr == <<EmptySeg>>
SlashStr == <<EmptySeg, EmptySeg>>
DotStr == <<DotSeg>>

Last(s) == s[Len(s)]
Front(s) == SubSeq(s, 1, Len(s) - 1)

\* s1 + s2 where s2 holds no "/"
StrAppendSeg(name, seg) == Front(name) \o <<Last(name) \o seg>>

\* name + EncFileExt
MetaName(name) == StrAppendSeg(name, <<EncFileExt>>)

\* strings.HasSuffix(name, EncFileExt)
HasEncFileExt(name) ==
    Len(Last(name)) > 0 /\ Last(Last(name)) = EncFileExt

IsAbs(name) == Len(name) >= 2 /\ name[1] = EmptySeg

\* strings.HasSuffix(name, "/")
HasSlashSuffix(name) == Len(name) >= 2 /\ Last(name) = EmptySeg

\* strings.Contains(name, "\x00")
ContainsNul(name) ==
    \E i \in 1 .. Len(name) : \E k \in 1 .. Len(name[i]) : name[i][k] = NulTok

\* the components a cleaned path keeps: "" and "." are dropped, ".." removes
\* the component before it (at the root it is dropped, in a relative path
\* a leading ".." stays)
RECURSIVE CleanComps(_, _, _)
CleanComps(segs, rooted, acc) ==
    IF segs = <<>> THEN acc
    ELSE Let(Head(segs), LAMBDA s :
             IF s = EmptySeg \/ s = DotSeg
             THEN CleanComps(Tail(segs), rooted, acc)
             ELSE IF s = DotDotSeg
             THEN IF acc # <<>> /\ Last(acc) # DotDotSeg
                  THEN CleanComps(Tail(segs), rooted, Front(acc))
                  ELSE IF rooted
                  THEN CleanComps(Tail(segs), rooted, acc)
                  ELSE CleanComps(Tail(segs), rooted, Append(acc, s))
             ELSE CleanComps(Tail(segs), rooted, Append(acc, s)))

\* path.Clean / filepath.Clean (the separator is "/")
PathClean(name) ==
    IF name = EmptyStr THEN DotStr
    ELSE Let(CleanComps(name, IsAbs(name), <<>>), LAMBDA comps :
             IF IsAbs(name)
             THEN IF comps = <<>> THEN SlashStr ELSE <<EmptySeg>> \o comps
             ELSE IF comps = <<>> THEN DotStr ELSE comps)

\* a + "/" + b
StrSlash(a, b) == a \o b

\* path.Join / filepath.Join of two elements: empty elements are ignored
PathJoin(a, b) ==
    IF a = EmptyStr /\ b = EmptyStr THEN EmptyStr
    ELSE IF a = EmptyStr THEN PathClean(b)
    ELSE IF b = EmptyStr THEN PathClean(a)
    ELSE PathClean(StrSlash(a, b))

\* path.Split: the directory (with its final slash) and the file
PathSplitDir(name) ==
    IF Len(name) = 1 THEN EmptyStr ELSE Front(name) \o <<EmptySeg>>

PathSplitFile(name) == <<Last(name)>>

\* slashClean(name) = path.Clean("/" + name)
slashClean(name) ==
    PathClean(IF name = EmptyStr \/ ~IsAbs(name)
              THEN <<EmptySeg>> \o name ELSE name)

(***************************************************************************)
(* The backend: the operating system's file tree behind package os.        *)
(* A disk is [dirents, inodes]: dirents maps the canonical path of every   *)
(* existing entry (the sequence of its components from the root) to the    *)
(* index of its inode, an inode is [kind, data].  An open os.File keeps    *)
(* its inode, so it survives a rename or a removal of its name.            *)
(***************************************************************************)
RootPath == <<>>
Cwd == RootPath

FileInode(data) == [kind |-> "file", data |-> data]
DirInode == [kind |-> "dir", data |-> <<>>]

Exists(disk, path) == path \in DOMAIN disk.dirents
NodeAt(disk, path) == disk.inodes[disk.dirents[path]]
IsDirAt(disk, path) == Exists(disk, path) /\ NodeAt(disk, path).kind = "dir"

IsPrefix(p, q) == Len(p) <= Len(q) /\ SubSeq(q, 1, Len(p)) = p
Children(disk, path) ==
    {q \in DOMAIN disk.dirents : Len(q) = Len(path) + 1 /\ IsPrefix(path, q)}

\* the kernel's path walk: every component walked through must be an
\* existing directory; the result names the last component, existing or not
RECURSIVE WalkFrom(_, _, _)
WalkFrom(disk, segs, cur) ==
    IF segs = <<>> THEN [err |-> "nil", path |-> cur]
    ELSE IF ~Exists(disk, cur) THEN [err |-> "ENOENT", path |-> cur]
    ELSE IF ~IsDirAt(disk, cur) THEN [err |-> "ENOTDIR", path |-> cur]
    ELSE Let(Head(segs), LAMBDA s :
             IF s = EmptySeg \/ s = DotSeg
             THEN WalkFrom(disk, Tail(segs), cur)
             ELSE IF s = DotDotSeg
             THEN WalkFrom(disk, Tail(segs),
                           IF cur = RootPath THEN cur ELSE Front(cur))
             ELSE WalkFrom(disk, Tail(segs), Append(cur, s)))

Walk(disk, name) ==
    IF name = EmptyStr \/ ContainsNul(name)
    THEN [err |-> "ENOENT", path |-> RootPath]
    ELSE IF IsAbs(name) THEN WalkFrom(disk, Tail(name), RootPath)
    ELSE WalkFrom(disk, name, Cwd)

\* os.Stat(name) / os.Lstat(name)
OsStat(disk, name) ==
    Let(Walk(disk, name), LAMBDA w :
        IF w.err # "nil" THEN [err |-> w.err, isDir |-> FALSE, size |-> 0]
        ELSE IF ~Exists(disk, w.path)
        THEN [err |-> "ENOENT", isDir |-> FALSE, size |-> 0]
        ELSE [err |-> "nil", isDir |-> IsDirAt(disk, w.path),
              size |-> Len(NodeAt(disk, w.path).data)])

(***************************************************************************)
(* os.File: [ino, off, append, rd, wr, closed, name, seen].  ino = 0 is    *)
(* the nil *os.File.  seen: the directory entries Readdir has returned.    *)
(***************************************************************************)
NilFile ==
    [ino |-> 0, off |-> 0, append |-> FALSE, rd |-> FALSE, wr |-> FALSE,
     closed |-> TRUE, name |-> EmptyStr, dir |-> RootPath, seen |-> {}]

O_RDONLY == [create |-> FALSE, trunc |-> FALSE, append |-> FALSE,
             excl |-> FALSE, rd |-> TRUE, wr |-> FALSE]
O_CREATE_TRUNC_RDWR == [create |-> TRUE, trunc |-> TRUE, append |-> FALSE,
                        excl |-> FALSE, rd |-> TRUE, wr |-> TRUE]

NewFile(ino, flag, name, path) ==
    [ino |-> ino, off |-> 0, append |-> flag.append, rd |-> flag.rd,
     wr |-> flag.wr, closed |-> FALSE, name |-> name, dir |-> path,
     seen |-> {}]

\* os.OpenFile(name, flag, perm): [err, file, disk]
OsOpenFile(disk, name, flag) ==
    Let(Walk(disk, name), LAMBDA w :
    LET fail(e) == [err |-> e, file |-> NilFile, disk |-> disk] IN
        IF w.err # "nil" THEN fail(w.err)
        ELSE IF Exists(disk, w.path)
        THEN IF flag.create /\ flag.excl THEN fail("EEXIST")
             ELSE IF IsDirAt(disk, w.path)
             THEN IF flag.wr \/ flag.create THEN fail("EISDIR")
                  ELSE [err |-> "nil",
                        file |-> NewFile(disk.dirents[w.path], flag, name, w.path),
                        disk |-> disk]
             ELSE Let(disk.dirents[w.path], LAMBDA ino :
                      [err |-> "nil",
                       file |-> NewFile(ino, flag, name, w.path),
                       disk |-> IF flag.trunc /\ flag.wr
                                THEN [disk EXCEPT !.inodes[ino].data = <<>>]
                                ELSE disk])
        ELSE IF ~flag.create THEN fail("ENOENT")
        ELSE IF w.path = RootPath \/ ~IsDirAt(disk, Front(w.path))
        THEN fail("ENOENT")
        ELSE Let(Len(disk.inodes) + 1, LAMBDA ino :
                 [err |-> "nil",
                  file |-> NewFile(ino, flag, name, w.path),
                  disk |-> [dirents |-> [q \in DOMAIN disk.dirents \cup {w.path}
                                           |-> IF q = w.path THEN ino
                                               ELSE disk.dirents[q]],
                            inodes |-> Append(disk.inodes, FileInode(<<>>))]]))

OsCreate(disk, name) == OsOpenFile(disk, name, O_CREATE_TRUNC_RDWR)
OsOpen(disk, name) == OsOpenFile(disk, name, O_RDONLY)

Unlink(disk, paths) ==
    [disk EXCEPT !.dirents = [q \in DOMAIN disk.dirents \ paths
                                |-> disk.dirents[q]]]

\* os.Remove(name): [err, disk]
OsRemove(disk, name) ==
    Let(Walk(disk, name), LAMBDA w :
        IF w.err # "nil" THEN [err |-> w.err, disk |-> disk]
        ELSE IF ~Exists(disk, w.path) THEN [err |-> "ENOENT", disk |-> disk]
        ELSE IF w.path = RootPath THEN [err |-> "EBUSY", disk |-> disk]
        ELSE IF IsDirAt(disk, w.path) /\ Children(disk, w.path) # {}
        THEN [err |-> "ENOTEMPTY", disk |-> disk]
        ELSE [err |-> "nil", disk |-> Unlink(disk, {w.path})])

\* os.RemoveAll(path): removes path and everything under it; a path that
\* does not exist is no error
OsRemoveAll(disk, name) ==
    Let(Walk(disk, name), LAMBDA w :
        IF name = EmptyStr THEN [err |-> "nil", disk |-> disk]
        ELSE IF w.err = "ENOENT" THEN [err |-> "nil", disk |-> disk]
        ELSE IF w.err # "nil" THEN [err |-> w.err, disk |-> disk]
        ELSE IF ~Exists(disk, w.path) THEN [err |-> "nil", disk |-> disk]
        ELSE IF w.path = RootPath THEN [err |-> "EBUSY", disk |-> disk]
        ELSE [err |-> "nil",
              disk |-> Unlink(disk, {q \in DOMAIN disk.dirents :
                                        IsPrefix(w.path, q)})])

\* os.Rename(oldname, newname): [err, disk]
OsRename(disk, oldname, newname) ==
    Let(Walk(disk, oldname), LAMBDA wo :
    Let(Walk(disk, newname), LAMBDA wn :
    LET fail(e) == [err |-> e, disk |-> disk] IN
        IF wo.err # "nil" THEN fail(wo.err)
        ELSE IF ~Exists(disk, wo.path) THEN fail("ENOENT")
        ELSE IF wn.err # "nil" THEN fail(wn.err)
        ELSE IF wo.path = RootPath \/ wn.path = RootPath THEN fail("EBUSY")
        ELSE IF ~IsDirAt(disk, Front(wn.path)) THEN fail("ENOENT")
        ELSE IF wo.path = wn.path THEN [err |-> "nil", disk |-> disk]
        ELSE IF IsPrefix(wo.path, wn.path) THEN fail("EINVAL")
        ELSE IF Exists(disk, wn.path) /\ IsDirAt(disk, wo.path)
                /\ ~IsDirAt(disk, wn.path) THEN fail("ENOTDIR")
        ELSE IF Exists(disk, wn.path) /\ ~IsDirAt(disk, wo.path)
                /\ IsDirAt(disk, wn.path) THEN fail("EISDIR")
        ELSE IF IsDirAt(disk, wn.path) /\ Children(disk, wn.path) # {}
        THEN fail("ENOTEMPTY")
        ELSE Let({q \in DOMAIN disk.dirents : IsPrefix(wo.path, q)}, LAMBDA moved :
             LET target(q) == wn.path \o SubSeq(q, Len(wo.path) + 1, Len(q)) IN
             Let((DOMAIN disk.dirents \ moved) \ {wn.path}, LAMBDA kept :
             Let({target(q) : q \in moved}, LAMBDA new :
                 [err |-> "nil",
                  disk |-> [disk EXCEPT !.dirents =
                      [q \in kept \cup new |->
                          IF q \in new
                          THEN disk.dirents[CHOOSE m \in moved : target(m) = q]
                          ELSE disk.dirents[q]]]])))))

\* os.Mkdir(name, perm): [err, disk]
OsMkdir(disk, name) ==
    Let(Walk(disk, name), LAMBDA w :
        IF w.err # "nil" THEN [err |-> w.err, disk |-> disk]
        ELSE IF Exists(disk, w.path) THEN [err |-> "EEXIST", disk |-> disk]
        ELSE IF ~IsDirAt(disk, Front(w.path))
        THEN [err |-> "ENOENT", disk |-> disk]
        ELSE [err |-> "nil",
              disk |-> [dirents |-> [q \in DOMAIN disk.dirents \cup {w.path}
                                       |-> IF q = w.path
                                           THEN Len(disk.inodes) + 1
                                           ELSE disk.dirents[q]],
                        inodes |-> Append(disk.inodes, DirInode)]])

\* os.MkdirAll(path, perm): makes the directories of path that are missing,
\* from the root down; a path that is a directory already is no error
RECURSIVE MkdirAllFrom(_, _, _)
MkdirAllFrom(disk, segs, cur) ==
    IF ~IsDirAt(disk, cur) THEN [err |-> "ENOTDIR", disk |-> disk]
    ELSE IF segs = <<>> THEN [err |-> "nil", disk |-> disk]
    ELSE IF Head(segs) = EmptySeg \/ Head(segs) = DotSeg
    THEN MkdirAllFrom(disk, Tail(segs), cur)
    ELSE IF Head(segs) = DotDotSeg
    THEN MkdirAllFrom(disk, Tail(segs),
                      IF cur = RootPath THEN cur ELSE Front(cur))
    ELSE IF Exists(disk, Append(cur, Head(segs)))
    THEN MkdirAllFrom(disk, Tail(segs), Append(cur, Head(segs)))
    ELSE MkdirAllFrom(
             [dirents |-> [q \in DOMAIN disk.dirents
                                  \cup {Append(cur, Head(segs))}
                              |-> IF q = Append(cur, Head(segs))
                                  THEN Len(disk.inodes) + 1
                                  ELSE disk.dirents[q]],
              inodes |-> Append(disk.inodes, DirInode)],
             Tail(segs), Append(cur, Head(segs)))

OsMkdirAll(disk, name) ==
    IF name = EmptyStr \/ ContainsNul(name)
    THEN [err |-> "ENOENT", disk |-> disk]
    ELSE MkdirAllFrom(disk, IF IsAbs(name) THEN Tail(name) ELSE name,
                      IF IsAbs(name) THEN RootPath ELSE Cwd)

(***************************************************************************)
(* The methods of *os.File.  Each returns [err, n, p, file, disk]: the     *)
(* error, the count or position, the caller's buffer after the call, and   *)
(* the file and disk after the call.                                       *)
(***************************************************************************)
ZeroCell == PlainCell(0)

FileRet(err, n, p, file, disk) ==
    [err |-> err, n |-> n, p |-> p, file |-> file, disk |-> disk]

DataOf(disk, file) == disk.inodes[file.ino].data
IsDirFile(disk, file) == disk.inodes[file.ino].kind = "dir"

\* data with p stored at offset off (0-based), a gap filled with zero bytes
StoreAt(data, p, off) ==
    Let(Max(Len(data), off + Len(p)), LAMBDA newLen :
        [i \in 1 .. newLen |->
            IF i > off /\ i <= off + Len(p) THEN p[i - off]
            ELSE IF i <= Len(data) THEN data[i]
            ELSE ZeroCell])

\* p with its first n bytes replaced by the file's bytes from offset off
LoadAt(data, p, off, n) ==
    [i \in 1 .. Len(p) |-> IF i <= n THEN data[off + i] ELSE p[i]]

\* file.Read(p)
FileRead(disk, file, p) ==
    IF file.closed THEN FileRet("os.ErrClosed", 0, p, file, disk)
    ELSE IF ~file.rd THEN FileRet("EBADF", 0, p, file, disk)
    ELSE IF IsDirFile(disk, file) THEN FileRet("EISDIR", 0, p, file, disk)
    ELSE IF Len(p) = 0 THEN FileRet("nil", 0, p, file, disk)
    ELSE Let(DataOf(disk, file), LAMBDA data :
         Let(Min(Len(p), Len(data) - file.off), LAMBDA n :
             IF n <= 0 THEN FileRet("io.EOF", 0, p, file, disk)
             ELSE FileRet("nil", n, LoadAt(data, p, file.off, n),
                          [file EXCEPT !.off = @ + n], disk)))

\* file.ReadAt(p, off): reads until p is full or the file ends
FileReadAt(disk, file, p, off) ==
    IF file.closed THEN FileRet("os.ErrClosed", 0, p, file, disk)
    ELSE IF off < 0 THEN FileRet("negative offset", 0, p, file, disk)
    ELSE IF Len(p) = 0 THEN FileRet("nil", 0, p, file, disk)
    ELSE IF ~file.rd THEN FileRet("EBADF", 0, p, file, disk)
    ELSE IF IsDirFile(disk, file) THEN FileRet("EISDIR", 0, p, file, disk)
    ELSE Let(DataOf(disk, file), LAMBDA data :
         Let(Max(0, Min(Len(p), Len(data) - off)), LAMBDA n :
             FileRet(IF n < Len(p) THEN "io.EOF" ELSE "nil", n,
                     LoadAt(data, p, off, n), file, disk)))

\* file.Write(p): at the file offset, or at the end in append mode
FileWrite(disk, file, p) ==
    IF file.closed THEN FileRet("os.ErrClosed", 0, p, file, disk)
    ELSE IF ~file.wr THEN FileRet("EBADF", 0, p, file, disk)
    ELSE IF Len(p) = 0 THEN FileRet("nil", 0, p, file, disk)
    ELSE Let(DataOf(disk, file), LAMBDA data :
         Let(IF file.append THEN Len(data) ELSE file.off, LAMBDA at :
             FileRet("nil", Len(p), p, [file EXCEPT !.off = at + Len(p)],
                     [disk EXCEPT !.inodes[file.ino].data = StoreAt(data, p, at)])))

\* file.WriteAt(p, off)
FileWriteAt(disk, file, p, off) ==
    IF file.append THEN FileRet("os.errWriteAtInAppendMode", 0, p, file, disk)
    ELSE IF off < 0 THEN FileRet("negative offset", 0, p, file, disk)
    ELSE IF file.closed THEN FileRet("os.ErrClosed", 0, p, file, disk)
    ELSE IF Len(p) = 0 THEN FileRet("nil", 0, p, file, disk)
    ELSE IF ~file.wr THEN FileRet("EBADF", 0, p, file, disk)
    ELSE FileRet("nil", Len(p), p, file,
                 [disk EXCEPT !.inodes[file.ino].data =
                      StoreAt(DataOf(disk, file), p, off)])

SEEK_SET == 0
SEEK_CUR == 1
SEEK_END == 2

\* file.Seek(offset, whence): n is the new absolute offset
FileSeek(disk, file, offset, whence) ==
    IF file.closed THEN FileRet("os.ErrClosed", 0, <<>>, file, disk)
    ELSE Let(
                     IF whence = SEEK_SET THEN 0
                     ELSE IF whence = SEEK_CUR THEN file.off
                     ELSE Len(DataOf(disk, file)),
         LAMBDA base :
         Let(base + offset, LAMBDA pos :
             IF whence \notin {SEEK_SET, SEEK_CUR, SEEK_END} \/ pos < 0
             THEN FileRet("EINVAL", 0, <<>>, file, disk)
             ELSE FileRet("nil", pos, <<>>, [file EXCEPT !.off = pos], disk)))

\* file.Truncate(size)
FileTruncate(disk, file, size) ==
    IF file.closed THEN FileRet("os.ErrClosed", 0, <<>>, file, disk)
    ELSE IF size < 0 \/ ~file.wr \/ IsDirFile(disk, file)
    THEN FileRet("EINVAL", 0, <<>>, file, disk)
    ELSE Let(DataOf(disk, file), LAMBDA data :
             FileRet("nil", 0, <<>>, file,
                     [disk EXCEPT !.inodes[file.ino].data =
                          [i \in 1 .. size |->
                              IF i <= Len(data) THEN data[i] ELSE ZeroCell]]))

\* file.Stat()
FileStat(disk, file) ==
    IF file.closed THEN FileRet("os.ErrClosed", 0, <<>>, file, disk)
    ELSE FileRet("nil", Len(DataOf(disk, file)), <<>>, file, disk)

\* file.Sync()
FileSync(disk, file) ==
    IF file.closed THEN FileRet("os.ErrClosed", 0, <<>>, file, disk)
    ELSE FileRet("nil", 0, <<>>, file, disk)

\* file.Close()
FileClose(disk, file) ==
    IF file.closed THEN FileRet("os.ErrClosed", 0, <<>>, file, disk)
    ELSE FileRet("nil", 0, <<>>, [file EXCEPT !.closed = TRUE], disk)

\* the sequences of k distinct elements of S
RECURSIVE Arrangements(_, _)
Arrangements(S, k) ==
    IF k = 0 THEN {<<>>}
    ELSE UNION {{<<e>> \o t : t \in Arrangements(S \ {e}, k - 1)} : e \in S}

\* the directory a file was opened on, found by its inode
DirPathOf(disk, file) ==
    {q \in DOMAIN disk.dirents : disk.dirents[q] = file.ino}

EntryNames(disk, file) ==
    UNION {{Last(c) : c \in Children(disk, q)} : q \in DirPathOf(disk, file)}

\* file.Readdir(n): the results it may give, the kernel choosing the order.
\* n > 0: at most n of the entries not yet returned, io.EOF when none is
\* left; n <= 0: all of them.  p holds the entries' names.
FileReaddir(disk, file, n) ==
    IF file.closed THEN {FileRet("os.ErrClosed", 0, <<>>, file, disk)}
    ELSE IF ~IsDirFile(disk, file)
    THEN {FileRet("ENOTDIR", 0, <<>>, file, disk)}
    ELSE Let(EntryNames(disk, file) \ file.seen, LAMBDA left :
         Let(
                  IF n > 0 THEN Min(n, Cardinality(left))
                  ELSE Cardinality(left),
         LAMBDA k :
             IF n > 0 /\ left = {}
             THEN {FileRet("io.EOF", 0, <<>>, file, disk)}
             ELSE {FileRet("nil", k, names,
                           [file EXCEPT !.seen = @ \cup {names[i] : i \in 1 .. k}],
                           disk) : names \in Arrangements(left, k)}))

(***************************************************************************)
(* EncryptionMasterKey: [key, fileNameIv]; its pathExistsMap is the        *)
(* variable of that name.  The name cipher.                                *)
(***************************************************************************)
NoIv == [id |-> "nil", len |-> 0]
GcmNonceSize == 12
GcmTagSize == 16

\* newAesGcm succeeds
AesGcmOk(k) == AesKeyOk(k.key)

\* existsPath(path): [exists, cache, calls]
existsPath(k, disk, cache, path) ==
    IF path \in DOMAIN cache
    THEN [exists |-> cache[path], cache |-> cache, calls |-> <<>>]
    ELSE Let(OsStat(disk, path).err = "nil", LAMBDA exists :
             [exists |-> exists,
              cache |-> [q \in DOMAIN cache \cup {path} |->
                            IF q = path THEN exists ELSE cache[q]],
              calls |-> <<"os.Stat">>])

\* for strings.HasSuffix(name, "/") { name = strings.TrimSuffix(name, "/") }
RECURSIVE TrimSlashes(_)
TrimSlashes(name) ==
    IF HasSlashSuffix(name) THEN TrimSlashes(Front(name)) ELSE name

\* encryptFileNamePart(name), name a string without "/"
encryptFileNamePart(k, name) ==
    IF name = EmptyStr THEN name
    ELSE IF ~AesGcmOk(k) THEN name
    ELSE <<<<ENCRYPTED_FILE_NAME_PREFIX,
             <<"b64", <<k.key.id, k.fileNameIv.id, name[1]>>>>>>>>

\* recursiveEncrpteFileName(name): [name, cache, calls]
RECURSIVE recursiveEncrpteFileName(_, _, _, _)
recursiveEncrpteFileName(k, disk, cache, name) ==
    IF name = EmptyStr \/ name = SlashStr
    THEN [name |-> name, cache |-> cache, calls |-> <<>>]
    ELSE Let(existsPath(k, disk, cache, name), LAMBDA ex :
             IF ex.exists
             THEN [name |-> name, cache |-> ex.cache, calls |-> ex.calls]
             ELSE Let(TrimSlashes(name), LAMBDA trimmed :
                  Let(
                                recursiveEncrpteFileName(
                                    k, disk, ex.cache, PathSplitDir(trimmed)),
                  LAMBDA parent :
                  Let(encryptFileNamePart(k, PathSplitFile(trimmed)), LAMBDA current :
                      [name |-> PathJoin(parent.name, current),
                       cache |-> parent.cache,
                       calls |-> ex.calls \o parent.calls]))))

\* filepath.Abs(name)
FilepathAbs(name) ==
    IF IsAbs(name) THEN PathClean(name)
    ELSE PathJoin(IF Cwd = RootPath THEN SlashStr ELSE <<EmptySeg>> \o Cwd,
                  name)

\* EncryptFileName(name): [name, cache, calls]
EncryptFileName(k, disk, cache, name) ==
    IF k.fileNameIv = NoIv
    THEN [name |-> name, cache |-> cache, calls |-> <<>>]
    ELSE recursiveEncrpteFileName(k, disk, cache, FilepathAbs(name))

\* the length of a token's text, and whether it is base64url text
TokLen(t) ==
    IF t[1] = "ext" THEN 10
    ELSE IF t[1] = "mark" THEN 9
    ELSE IF t[1] = "b64"
    THEN (4 * (Len(t[2][3]) + GcmTagSize) + 2) \div 3
    ELSE 1

TokB64(t) ==
    IF t[1] = "c" THEN t[2] \notin {".", "~"}
    ELSE t[1] \in {"mark", "b64"}

RECURSIVE SegLen(_)
SegLen(seg) == IF seg = <<>> THEN 0 ELSE TokLen(Head(seg)) + SegLen(Tail(seg))

\* base64.RawURLEncoding.DecodeString(seg) succeeds
B64DecodeOk(seg) ==
    /\ \A i \in 1 .. Len(seg) : TokB64(seg[i])
    /\ SegLen(seg) % 4 # 1

\* decrypteFileNamePart(encrytpedFileNamePart), a segment
decrypteFileNamePart(k, part) ==
    IF part = <<>> \/ Head(part) # ENCRYPTED_FILE_NAME_PREFIX THEN part
    ELSE Let(Tail(part), LAMBDA prefixTrimed :
             IF ~B64DecodeOk(prefixTrimed) THEN prefixTrimed
             ELSE IF ~AesGcmOk(k) THEN part
             ELSE IF /\ Len(prefixTrimed) = 1
                     /\ prefixTrimed[1][1] = "b64"
                     /\ prefixTrimed[1][2][1] = k.key.id
                     /\ prefixTrimed[1][2][2] = k.fileNameIv.id
             THEN prefixTrimed[1][2][3]
             ELSE part)

\* DecryptFileName(encryptedFileName)
DecryptFileName(k, name) ==
    IF k.fileNameIv = NoIv THEN name
    ELSE [i \in 1 .. Len(name) |-> decrypteFileNamePart(k, name[i])]

(***************************************************************************)
(* The file metadata store: the sidecar "<name>.__encfile" holds the JSON  *)
(* of EncFileMeta{Name, Iv}.  The text of that JSON is modelled as one     *)
(* cell that carries the record.                                           *)
(***************************************************************************)
NoMeta == [name |-> EmptyStr, iv |-> <<>>]

\* marshalEncFileMeta
marshalEncFileMeta(meta) ==
    <<[v |-> 0, ks |-> {}, j |-> <<meta.name, meta.iv>>]>>

\* unmarchalEncFileMeta: [err, meta]
unmarchalEncFileMeta(data) ==
    IF Len(data) = 1 /\ data[1].j # NoJson /\ data[1].ks = {} /\ data[1].v = 0
    THEN [err |-> "nil", meta |-> [name |-> data[1].j[1], iv |-> data[1].j[2]]]
    ELSE [err |-> "json.SyntaxError", meta |-> NoMeta]

\* an openEncFileMeta that gives a record with the zero IV to a file that
\* has no sidecar
openEncFileMetaOrZeroIv(disk, name) ==
    IF OsOpen(disk, MetaName(name)).err = "ENOENT"
    THEN [err |-> "nil",
          meta |-> [name |-> name, iv |-> [i \in 1 .. BlockSize |-> 0]],
          calls |-> <<"os.Open">>]
    ELSE Let(unmarchalEncFileMeta(
                 DataOf(disk, OsOpen(disk, MetaName(name)).file)), LAMBDA u :
             [err |-> u.err, meta |-> u.meta,
              calls |-> <<"os.Open", "io.ReadAll">>])

\* openEncFileMeta(name): [err, meta, calls]; meta = NoMeta is the nil record
openEncFileMeta(disk, name) ==
    Let(OsOpen(disk, MetaName(name)), LAMBDA o :
        IF o.err # "nil"
        THEN IF o.err = "ENOENT"
             THEN [err |-> "nil", meta |-> NoMeta, calls |-> <<"os.Open">>]
             ELSE [err |-> o.err, meta |-> NoMeta, calls |-> <<"os.Open">>]
        ELSE IF IsDirFile(disk, o.file)
        THEN [err |-> "EISDIR", meta |-> NoMeta,
              calls |-> <<"os.Open", "io.ReadAll">>]
        ELSE Let(unmarchalEncFileMeta(DataOf(disk, o.file)), LAMBDA u :
                 [err |-> u.err, meta |-> u.meta,
                  calls |-> <<"os.Open", "io.ReadAll">>]))

\* an openOrNewEncFileMeta that does not look for the record first
alwaysNewEncFileMeta(disk, name, iv) ==
    Let(OsCreate(disk, MetaName(name)), LAMBDA c :
        IF c.err # "nil"
        THEN [err |-> c.err, meta |-> NoMeta, disk |-> disk,
              calls |-> <<"os.Create">>]
        ELSE Let(FileWrite(c.disk, c.file,
                           marshalEncFileMeta([name |-> name, iv |-> iv])),
                 LAMBDA w :
                 [err |-> "nil", meta |-> [name |-> name, iv |-> iv],
                  disk |-> w.disk, calls |-> <<"os.Create", "file.Write">>]))

\* openOrNewEncFileMeta(name), iv the bytes rand.Read gives:
\* [err, meta, disk, calls]
openOrNewEncFileMeta(disk, name, iv) ==
    Let(openEncFileMeta(disk, name), LAMBDA old :
        IF old.err = "nil" /\ old.meta # NoMeta
        THEN [err |-> "nil", meta |-> old.meta, disk |-> disk,
              calls |-> old.calls]
        ELSE Let([name |-> name, iv |-> iv], LAMBDA encFileMeta :
             Let(OsCreate(disk, MetaName(name)), LAMBDA c :
                 IF c.err # "nil"
                 THEN [err |-> c.err, meta |-> NoMeta, disk |-> disk,
                       calls |-> old.calls \o <<"os.Create">>]
                 ELSE Let(
                               FileWrite(c.disk, c.file,
                                         marshalEncFileMeta(encFileMeta)),
                      LAMBDA w :
                          [err |-> "nil", meta |-> encFileMeta,
                           disk |-> w.disk,
                           calls |-> old.calls \o <<"os.Create", "file.Write">>]))))

(***************************************************************************)
(* EncFs: [variant, key, baseDirectory].  key is the *EncryptionMasterKey  *)
(* [key, fileNameIv], NilMasterKey the nil pointer.  The repository holds  *)
(* three versions of the facade: "plain", "nameenc" (file-name encryption) *)
(* and "basedir" (a virtual root).                                         *)
(***************************************************************************)
NilMasterKey == [key |-> NoKey, fileNameIv |-> NoIv]

\* f.encFs != nil && f.encFs.key != nil && f.encFileMeta != nil
EncActive(encFs, f) == encFs.key # NilMasterKey /\ f.encFileMeta # NoMeta

(***************************************************************************)
(* EncFile: [isDir, closed, encFileMeta, filePos, file].                   *)
(***************************************************************************)
NilEncFile ==
    [isDir |-> FALSE, closed |-> TRUE, encFileMeta |-> NoMeta, filePos |-> 0,
     file |-> NilFile]

\* a NewEncFile that creates a record only when the flags ask for creation
NewEncFileByFlag(disk, name, file, encFs, isCreate, iv) ==
    Let(IsDirFile(disk, file), LAMBDA isDir :
    Let(
             IF isDir
             THEN [err |-> "nil", meta |-> NoMeta, disk |-> disk,
                   calls |-> <<>>]
             ELSE IF isCreate THEN openOrNewEncFileMeta(disk, name, iv)
             ELSE Let(openEncFileMeta(disk, name), LAMBDA o :
                      [err |-> o.err, meta |-> o.meta, disk |-> disk,
                       calls |-> o.calls]),
    LAMBDA m :
        [err |-> m.err,
         encFile |-> IF m.err # "nil" THEN NilEncFile
                     ELSE [isDir |-> isDir, closed |-> FALSE,
                           encFileMeta |-> m.meta, filePos |-> 0,
                           file |-> file],
         disk |-> m.disk,
         calls |-> <<"file.Stat", "os.Stat">> \o m.calls]))

\* NewEncFile(name, file, encFs, isCreate): [err, encFile, disk, calls]
NewEncFile(disk, name, file, encFs, isCreate, iv) ==
    Let(IsDirFile(disk, file), LAMBDA isDir :
    Let(OsStat(disk, name), LAMBDA fileState :
    Let(
                  \/ isCreate
                  \/ (fileState.err = "nil" /\ ~fileState.isDir
                      /\ fileState.size = 0),
    LAMBDA create :
    Let(
             IF isDir
             THEN [err |-> "nil", meta |-> NoMeta, disk |-> disk,
                   calls |-> <<>>]
             ELSE IF create THEN openOrNewEncFileMeta(disk, name, iv)
             ELSE Let(openEncFileMeta(disk, name), LAMBDA o :
                      [err |-> o.err, meta |-> o.meta, disk |-> disk,
                       calls |-> o.calls]),
    LAMBDA m :
        [err |-> m.err,
         encFile |-> IF m.err # "nil" THEN NilEncFile
                     ELSE [isDir |-> isDir, closed |-> FALSE,
                           encFileMeta |-> m.meta, filePos |-> 0,
                           file |-> file],
         disk |-> m.disk,
         calls |-> <<"file.Stat", "os.Stat">> \o m.calls]))))

\* checkIsFile
checkIsFile(f) ==
    IF f.closed THEN "afero.ErrFileClosed"
    ELSE IF f.isDir THEN "EISDIR"
    ELSE "nil"

\* the result of a method of EncFile: the error, the count, the caller's
\* buffer, the handle and the disk after the call, the backend calls made
EncRet(err, n, p, f, disk, calls) ==
    [err |-> err, n |-> n, p |-> p, f |-> f, disk |-> disk, calls |-> calls]

\* Close
EncFileClose(encFs, disk, f) ==
    IF f.closed THEN EncRet("afero.ErrFileClosed", 0, <<>>, f, disk, <<>>)
    ELSE Let(FileClose(disk, f.file), LAMBDA r :
             EncRet(r.err, 0, <<>>,
                    [f EXCEPT !.closed = TRUE, !.file = r.file], r.disk,
                    <<"file.Close">>))

\* Read
EncFileRead(encFs, disk, f, p) ==
    IF checkIsFile(f) # "nil" THEN EncRet(checkIsFile(f), 0, p, f, disk, <<>>)
    ELSE Let(f.filePos, LAMBDA beforeReadFilePos :
         Let(FileRead(disk, f.file, p), LAMBDA r :
         Let([f EXCEPT !.file = r.file], LAMBDA f1 :
             IF r.err # "nil"
             THEN EncRet(r.err, r.n, r.p, f1, r.disk, <<"file.Read">>)
             ELSE Let([f1 EXCEPT !.filePos = @ + r.n], LAMBDA f2 :
                      IF ~EncActive(encFs, f)
                      THEN EncRet("nil", r.n, r.p, f2, r.disk, <<"file.Read">>)
                      ELSE Let(
                                    generateCtrEncryptBytes(
                                        encFs.key.key, f.encFileMeta.iv,
                                        beforeReadFilePos, r.n),
                           LAMBDA e :
                               IF e.err # "nil"
                               THEN EncRet(e.err, 0, r.p, f2, r.disk,
                                           <<"file.Read">>)
                               ELSE EncRet("nil", r.n,
                                           XorPrefix(r.p, e.bytes, r.n), f2,
                                           r.disk, <<"file.Read">>))))))

\* ReadAt
EncFileReadAt(encFs, disk, f, p, off) ==
    IF checkIsFile(f) # "nil" THEN EncRet(checkIsFile(f), 0, p, f, disk, <<>>)
    ELSE Let(FileReadAt(disk, f.file, p, off), LAMBDA r :
         Let([f EXCEPT !.file = r.file], LAMBDA f1 :
             IF r.err # "nil" \/ ~EncActive(encFs, f)
             THEN EncRet(r.err, r.n, r.p, f1, r.disk, <<"file.ReadAt">>)
             ELSE Let(
                           generateCtrEncryptBytes(
                               encFs.key.key, f.encFileMeta.iv, off, r.n),
                  LAMBDA e :
                      IF e.err # "nil"
                      THEN EncRet(e.err, 0, r.p, f1, r.disk, <<"file.ReadAt">>)
                      ELSE EncRet("nil", r.n, XorPrefix(r.p, e.bytes, r.n),
                                  f1, r.disk, <<"file.ReadAt">>))))

\* a Seek that trusts its argument instead of the backend's answer
SeekSetsCursorToOffset(encFs, disk, f, offset, whence) ==
    IF checkIsFile(f) # "nil"
    THEN EncRet(checkIsFile(f), 0, <<>>, f, disk, <<>>)
    ELSE Let(FileSeek(disk, f.file, offset, whence), LAMBDA r :
             EncRet(r.err, r.n, <<>>,
                    [f EXCEPT !.file = r.file, !.filePos = offset],
                    r.disk, <<"file.Seek">>))

\* Seek
EncFileSeek(encFs, disk, f, offset, whence) ==
    IF checkIsFile(f) # "nil"
    THEN EncRet(checkIsFile(f), 0, <<>>, f, disk, <<>>)
    ELSE Let(FileSeek(disk, f.file, offset, whence), LAMBDA r :
             EncRet(r.err, r.n, <<>>,
                    [f EXCEPT !.file = r.file,
                              !.filePos = IF r.err = "nil" THEN r.n ELSE @],
                    r.disk, <<"file.Seek">>))

\* Write
EncFileWrite(encFs, disk, f, p) ==
    IF checkIsFile(f) # "nil" THEN EncRet(checkIsFile(f), 0, p, f, disk, <<>>)
    ELSE Let(
                  IF EncActive(encFs, f)
                  THEN generateCtrEncryptBytes(encFs.key.key, f.encFileMeta.iv,
                                               f.filePos, Len(p))
                  ELSE [err |-> "nil", bytes |-> <<>>],
         LAMBDA e :
             IF e.err # "nil" THEN EncRet(e.err, 0, p, f, disk, <<>>)
             ELSE Let(
                                   IF EncActive(encFs, f)
                                   THEN XorPrefix(p, e.bytes, Len(p)) ELSE p,
                  LAMBDA writeBuff :
                  Let(FileWrite(disk, f.file, writeBuff), LAMBDA r :
                      EncRet(r.err, r.n, p,
                             [f EXCEPT !.file = r.file,
                                       !.filePos = IF r.err = "nil"
                                                   THEN @ + r.n ELSE @],
                             r.disk, <<"file.Write">>))))

\* a WriteAt made of a seek and a Write, which moves the cursor
WriteAtBySeekAndWrite(encFs, disk, f, p, off) ==
    EncFileWrite(encFs, disk,
                 [f EXCEPT !.filePos = off, !.file.off = off], p)

\* WriteAt
EncFileWriteAt(encFs, disk, f, p, off) ==
    IF checkIsFile(f) # "nil" THEN EncRet(checkIsFile(f), 0, p, f, disk, <<>>)
    ELSE Let(
                  IF EncActive(encFs, f)
                  THEN generateCtrEncryptBytes(encFs.key.key, f.encFileMeta.iv,
                                               off, Len(p))
                  ELSE [err |-> "nil", bytes |-> <<>>],
         LAMBDA e :
             IF e.err # "nil" THEN EncRet(e.err, 0, p, f, disk, <<>>)
             ELSE Let(
                                   IF EncActive(encFs, f)
                                   THEN XorPrefix(p, e.bytes, Len(p)) ELSE p,
                  LAMBDA writeBuff :
                  Let(FileWriteAt(disk, f.file, writeBuff, off), LAMBDA r :
                      EncRet(r.err, r.n, p, [f EXCEPT !.file = r.file],
                             r.disk, <<"file.WriteAt">>))))

\* WriteString
EncFileWriteString(encFs, disk, f, s) == EncFileWrite(encFs, disk, f, s)

\* Stat
EncFileStat(encFs, disk, f) ==
    Let(FileStat(disk, f.file), LAMBDA r :
        EncRet(r.err, r.n, <<>>, f, r.disk, <<"file.Stat">>))

\* Sync
EncFileSync(encFs, disk, f) ==
    Let(FileSync(disk, f.file), LAMBDA r :
        EncRet(r.err, 0, <<>>, f, r.disk, <<"file.Sync">>))

\* Truncate
EncFileTruncate(encFs, disk, f, size) ==
    Let(FileTruncate(disk, f.file, size), LAMBDA r :
        EncRet(r.err, 0, <<>>, f, r.disk, <<"file.Truncate">>))

\* a Readdir that keeps every entry the backend returned
KeepAllInfos(fileInfos, count, acc) == fileInfos

\* the entries Readdir keeps of those the backend returned
RECURSIVE FilterInfos(_, _, _)
FilterInfos(fileInfos, count, acc) ==
    IF fileInfos = <<>> THEN acc
    ELSE Let(Head(fileInfos), LAMBDA name :
         Let(HasEncFileExt(<<name>>), LAMBDA isEncFileMetaFile :
         Let(IF ~isEncFileMetaFile THEN Append(acc, name) ELSE acc, LAMBDA acc1 :
             IF count > 0 /\ Len(acc1) >= count THEN acc1
             ELSE FilterInfos(Tail(fileInfos), count, acc1))))

\* Readdir(count), r what the backend's Readdir(count * 2) returned; p holds
\* the backend names of the entries returned
EncFileReaddir(encFs, disk, f, count, r) ==
    IF f.closed THEN EncRet("afero.ErrFileClosed", 0, <<>>, f, disk, <<>>)
    ELSE IF r.err # "nil"
    THEN EncRet(r.err, 0, <<>>, [f EXCEPT !.file = r.file], r.disk,
                <<"file.Readdir">>)
    ELSE Let(FilterInfos(r.p, count, <<>>), LAMBDA filterFileInfos :
             EncRet("nil", Len(filterFileInfos), filterFileInfos,
                    [f EXCEPT !.file = r.file], r.disk, <<"file.Readdir">>))

\* EncFileInfo.Name() of an entry
EncFileInfoName(encFs, name) == DecryptFileName(encFs.key, <<name>>)

\* Readdirnames(n): the names of Readdir(n)'s entries
EncFileReaddirnames(encFs, disk, f, n, r) ==
    Let(EncFileReaddir(encFs, disk, f, n, r), LAMBDA fi :
        IF fi.err # "nil" THEN fi
        ELSE [fi EXCEPT !.p = [i \in 1 .. Len(fi.p) |->
                                  EncFileInfoName(encFs, fi.p[i])]])

(***************************************************************************)
(* The facade EncFs.  Each operation returns [err, encFile, disk, cache,   *)
(* calls]: the error, the handle returned (NilEncFile: none), the disk and *)
(* the key's pathExistsMap after the call, and the backend calls made.     *)
(***************************************************************************)
FsRet(err, encFile, disk, cache, calls) ==
    [err |-> err, encFile |-> encFile, disk |-> disk, cache |-> cache,
     calls |-> calls]

\* convertOsFileToEncFile after os.OpenFile(name, flag, perm): a nil file
\* returns the error, otherwise NewEncFile decides
OpenAndConvert(encFs, disk, cache, name, flag, isCreate, iv, calls, op) ==
    Let(OsOpenFile(disk, name, flag), LAMBDA o :
        IF o.err # "nil"
        THEN FsRet(o.err, NilEncFile, o.disk, cache, calls \o <<op>>)
        ELSE Let(NewEncFile(o.disk, name, o.file, encFs, isCreate, iv), LAMBDA n :
                 FsRet(n.err, n.encFile, n.disk, cache,
                       calls \o <<op>> \o n.calls)))

\* checkFileExt of the plain and base-directory versions
checkFileExtPlain(name) ==
    IF HasEncFileExt(name) THEN "ErrFileForbiddenFileExt" ELSE "nil"

\* a checkFileExt that does not look at the name-IV
checkFileExtAnyway(encFs, name) == checkFileExtPlain(name)

\* (*EncFs).checkFileExt of the file-name encryption version
checkFileExt(encFs, name) ==
    IF encFs.key.fileNameIv # NoIv THEN "nil"
    ELSE IF HasEncFileExt(name) THEN "ErrFileForbiddenFileExt"
    ELSE "nil"

\* resolve(name) of the base-directory version
resolve(encFs, name) ==
    IF encFs.baseDirectory = EmptyStr THEN name
    ELSE IF ContainsNul(name) THEN EmptyStr
    ELSE PathJoin(encFs.baseDirectory, slashClean(name))

(***************************************************************************)
(* The file-name encryption version (encfs/fs.go).                         *)
(***************************************************************************)
NameEncOpenFile(encFs, disk, cache, name, flag, isCreate, iv, op) ==
    IF checkFileExt(encFs, name) # "nil"
    THEN FsRet(checkFileExt(encFs, name), NilEncFile, disk, cache, <<>>)
    ELSE Let(EncryptFileName(encFs.key, disk, cache, name), LAMBDA e :
             OpenAndConvert(encFs, disk, e.cache, e.name, flag, isCreate, iv,
                            e.calls, op))

NameEncCreate(encFs, disk, cache, name, iv) ==
    NameEncOpenFile(encFs, disk, cache, name, O_CREATE_TRUNC_RDWR, TRUE, iv,
                    "os.Create")

NameEncOpen(encFs, disk, cache, name, iv) ==
    NameEncOpenFile(encFs, disk, cache, name, O_RDONLY, FALSE, iv, "os.Open")

NameEncMkdir(encFs, disk, cache, name) ==
    Let(EncryptFileName(encFs.key, disk, cache, name), LAMBDA e :
    Let(OsMkdir(disk, e.name), LAMBDA m :
        FsRet(m.err, NilEncFile, m.disk, e.cache, e.calls \o <<"os.Mkdir">>)))

NameEncMkdirAll(encFs, disk, cache, path) ==
    Let(EncryptFileName(encFs.key, disk, cache, path), LAMBDA e :
    Let(OsMkdirAll(disk, e.name), LAMBDA m :
        FsRet(m.err, NilEncFile, m.disk, e.cache,
              e.calls \o <<"os.MkdirAll">>)))

\* Remove after the path transform: the sidecar, then the file
RemoveWithMeta(disk, cache, name, calls) ==
    Let(OsRemove(disk, MetaName(name)), LAMBDA m :
    Let(OsRemove(m.disk, name), LAMBDA r :
        FsRet(r.err, NilEncFile, r.disk, cache,
              calls \o <<"os.Remove", "os.Remove">>)))

NameEncRemove(encFs, disk, cache, name) ==
    Let(EncryptFileName(encFs.key, disk, cache, name), LAMBDA e :
        RemoveWithMeta(disk, e.cache, e.name, e.calls))

NameEncRemoveAll(encFs, disk, cache, path) ==
    Let(EncryptFileName(encFs.key, disk, cache, path), LAMBDA e :
    Let(OsStat(disk, e.name), LAMBDA fileInfo :
        IF fileInfo.err = "nil" /\ ~fileInfo.isDir
        THEN NameEncRemove(encFs, disk, e.cache, e.name)
        ELSE Let(OsRemoveAll(disk, e.name), LAMBDA r :
                 FsRet(r.err, NilEncFile, r.disk, e.cache,
                       e.calls \o <<"os.Stat", "os.RemoveAll">>))))

\* Rename after the path transform: the sidecar, then the file
RenameWithMeta(disk, cache, oldname, newname, calls) ==
    Let(OsRename(disk, MetaName(oldname), MetaName(newname)), LAMBDA m :
    Let(OsRename(m.disk, oldname, newname), LAMBDA r :
        FsRet(r.err, NilEncFile, r.disk, cache,
              calls \o <<"os.Rename", "os.Rename">>)))

NameEncRename(encFs, disk, cache, oldname, newname) ==
    Let(EncryptFileName(encFs.key, disk, cache, oldname), LAMBDA eo :
    Let(EncryptFileName(encFs.key, disk, eo.cache, newname), LAMBDA en :
        RenameWithMeta(disk, en.cache, eo.name, en.name, eo.calls \o en.calls)))

(***************************************************************************)
(* The base-directory version (encfs/fs.go, second part).                  *)
(***************************************************************************)
BaseDirOpenFile(encFs, disk, cache, name, flag, isCreate, iv, op) ==
    Let(resolve(encFs, name), LAMBDA resolved :
        IF resolved = EmptyStr
        THEN FsRet("os.ErrNotExist", NilEncFile, disk, cache, <<>>)
        ELSE IF checkFileExtPlain(resolved) # "nil"
        THEN FsRet(checkFileExtPlain(resolved), NilEncFile, disk, cache, <<>>)
        ELSE OpenAndConvert(encFs, disk, cache, resolved, flag, isCreate, iv,
                            <<>>, op))

BaseDirCreate(encFs, disk, cache, name, iv) ==
    BaseDirOpenFile(encFs, disk, cache, name, O_CREATE_TRUNC_RDWR, TRUE, iv,
                    "os.Create")

BaseDirOpen(encFs, disk, cache, name, iv) ==
    BaseDirOpenFile(encFs, disk, cache, name, O_RDONLY, FALSE, iv, "os.Open")

BaseDirMkdir(encFs, disk, cache, name) ==
    Let(resolve(encFs, name), LAMBDA resolved :
        IF resolved = EmptyStr
        THEN FsRet("os.ErrNotExist", NilEncFile, disk, cache, <<>>)
        ELSE Let(OsMkdir(disk, resolved), LAMBDA m :
                 FsRet(m.err, NilEncFile, m.disk, cache, <<"os.Mkdir">>)))

BaseDirMkdirAll(encFs, disk, cache, path) ==
    Let(resolve(encFs, path), LAMBDA resolved :
        IF resolved = EmptyStr
        THEN FsRet("os.ErrNotExist", NilEncFile, disk, cache, <<>>)
        ELSE IF resolved = PathClean(encFs.baseDirectory)
        THEN FsRet("os.ErrInvalid", NilEncFile, disk, cache, <<>>)
        ELSE Let(OsMkdirAll(disk, resolved), LAMBDA m :
                 FsRet(m.err, NilEncFile, m.disk, cache, <<"os.MkdirAll">>)))

BaseDirRemove(encFs, disk, cache, name) ==
    Let(resolve(encFs, name), LAMBDA resolved :
        IF resolved = EmptyStr
        THEN FsRet("os.ErrNotExist", NilEncFile, disk, cache, <<>>)
        ELSE RemoveWithMeta(disk, cache, resolved, <<>>))

BaseDirRemoveAll(encFs, disk, cache, path) ==
    Let(resolve(encFs, path), LAMBDA resolved :
        IF resolved = EmptyStr
        THEN FsRet("os.ErrNotExist", NilEncFile, disk, cache, <<>>)
        ELSE IF resolved = PathClean(encFs.baseDirectory)
        THEN FsRet("os.ErrInvalid", NilEncFile, disk, cache, <<>>)
        ELSE Let(OsStat(disk, resolved), LAMBDA fileInfo :
                 IF fileInfo.err = "nil" /\ ~fileInfo.isDir
                 THEN Let(BaseDirRemove(encFs, disk, cache, resolved), LAMBDA r :
                          [r EXCEPT !.calls = <<"os.Stat">> \o @])
                 ELSE Let(OsRemoveAll(disk, resolved), LAMBDA r :
                          FsRet(r.err, NilEncFile, r.disk, cache,
                                <<"os.Stat", "os.RemoveAll">>))))

BaseDirRename(encFs, disk, cache, oldname, newname) ==
    Let(resolve(encFs, oldname), LAMBDA o :
    Let(resolve(encFs, newname), LAMBDA n :
    Let(PathClean(encFs.baseDirectory), LAMBDA root :
        IF o = EmptyStr \/ n = EmptyStr
        THEN FsRet("os.ErrNotExist", NilEncFile, disk, cache, <<>>)
        ELSE IF root = o \/ root = n
        THEN FsRet("os.ErrInvalid", NilEncFile, disk, cache, <<>>)
        ELSE RenameWithMeta(disk, cache, o, n, <<>>))))

(***************************************************************************)
(* The inputs the model draws from.                                        *)
(***************************************************************************)
KeyGood == [id |-> "k1", len |-> 32]
NameIv == [id |-> "niv", len |-> GcmNonceSize]

BaseStr == <<EmptySeg, <<Chr("b")>>>>

CfgDefault ==
    [variant |-> "nameenc", key |-> [key |-> KeyGood, fileNameIv |-> NoIv],
     baseDirectory |-> EmptyStr]
CfgNameEnc ==
    [variant |-> "nameenc", key |-> [key |-> KeyGood, fileNameIv |-> NameIv],
     baseDirectory |-> EmptyStr]
CfgBaseDir ==
    [variant |-> "basedir", key |-> [key |-> KeyGood, fileNameIv |-> NoIv],
     baseDirectory |-> BaseStr]

\* the IVs rand.Read may give: zero, and one whose low half is 2^64 - 1
IvZero == [i \in 1 .. BlockSize |-> 0]
IvEdge == [i \in 1 .. BlockSize |-> IF i > U64Bytes THEN ByteMod - 1 ELSE 0]
IVs == {IvZero, IvEdge}

Bytes(s) == [i \in 1 .. Len(s) |-> PlainCell(s[i])]
\* "hello world"
Hello == Bytes(<<104, 101, 108, 108, 111, 32, 119, 111, 114, 108, 100>>)
\* "HELLO"
Upper == Bytes(<<72, 69, 76, 76, 79>>)
Blank(n) == [i \in 1 .. n |-> ZeroCell]

FStr == <<<<Chr("f")>>>>
GStr == <<<<Chr("g")>>>>

O_RDWR == [create |-> FALSE, trunc |-> FALSE, append |-> FALSE,
           excl |-> FALSE, rd |-> TRUE, wr |-> TRUE]
O_APPEND_RDWR == [create |-> FALSE, trunc |-> FALSE, append |-> TRUE,
                  excl |-> FALSE, rd |-> TRUE, wr |-> TRUE]

(***************************************************************************)
(* The state.                                                              *)
(*   encFs          the facade's configuration                             *)
(*   disk           the backend                                            *)
(*   pathExistsMap  the master key's path-existence cache                  *)
(*   handles        the EncFile handles returned so far                    *)
(*   last           the last call: its name, arguments and results         *)
(*   plain          per inode and offset, the plaintext byte last written  *)
(*                  there and the (key, IV) it was encrypted under         *)
(*   used           the (key, IV, offset, plaintext byte) combinations     *)
(*                  encrypted so far                                       *)
(*   openers        the facade calls that run concurrently: for each, the  *)
(*                  place it has reached and its local variables           *)
(***************************************************************************)
VARIABLES encFs, disk, pathExistsMap, handles, last, plain, used, openers

vars == <<encFs, disk, pathExistsMap, handles, last, plain, used, openers>>

\* a caller that has not called yet
IdleOpener ==
    [pc |-> "idle", op |-> "none", isCreate |-> FALSE, file |-> NilFile,
     iv |-> <<>>, metaFile |-> NilFile]

Unwritten == [v |-> -1, tag |-> <<>>]
RawTag == <<"raw">>
EncTag(cfg, f) ==
    IF EncActive(cfg, f) THEN <<cfg.key.key.id, f.encFileMeta.iv>> ELSE RawTag

\* plain after a call: the bytes p stored at offset at of inode ino carry
\* the tag, bytes the call left alone keep theirs
PlainAfter(d0, d1, ino, at, p, tag) ==
    [k \in 1 .. Len(d1.inodes) |->
        [i \in 1 .. Len(d1.inodes[k].data) |->
            IF k = ino /\ i > at /\ i <= at + Len(p)
            THEN [v |-> p[i - at].v, tag |-> tag]
            ELSE IF /\ k <= Len(d0.inodes)
                    /\ i <= Len(d0.inodes[k].data)
                    /\ d1.inodes[k].data[i] = d0.inodes[k].data[i]
            THEN plain[k][i]
            ELSE Unwritten]]

NoCall ==
    [op |-> "none", h |-> 0, name |-> EmptyStr, name2 |-> EmptyStr,
     off |-> 0, arg |-> <<>>, err |-> "nil", n |-> 0, p |-> <<>>,
     calls |-> <<>>, seq |-> 0]

Call(op, h, name, name2, off, arg, err, n, p, calls) ==
    [op |-> op, h |-> h, name |-> name, name2 |-> name2, off |-> off,
     arg |-> arg, err |-> err, n |-> n, p |-> p, calls |-> calls,
     seq |-> last.seq + 1]

\* what an earlier run that wrote text to a new file at path left of it:
\* its ciphertext under (key, iv) and its sidecar
Encrypted(key, iv, text) ==
    XorPrefix(text, generateCtrEncryptBytes(key, iv, 0, Len(text)).bytes,
              Len(text))

EmptyDisk ==
    [dirents |-> (RootPath :> 1), inodes |-> <<DirInode>>]

\* the root holding the file "f" = "hello world" under (KeyGood, IvZero)
DiskWithF ==
    [dirents |-> (RootPath :> 1) @@ (<<FStr[1]>> :> 2)
                 @@ (<<MetaName(FStr)[1]>> :> 3),
     inodes |-> <<DirInode,
                  FileInode(Encrypted(KeyGood, IvZero, Hello)),
                  FileInode(marshalEncFileMeta([name |-> FStr, iv |-> IvZero]))>>]

\* DiskWithF and the directory "b" holding a file "f" of its own, written
\* under (KeyGood, IvZero)
DiskWithB ==
    [dirents |-> DiskWithF.dirents @@ (<<BaseStr[2]>> :> 4)
                 @@ (<<BaseStr[2], FStr[1]>> :> 5)
                 @@ (<<BaseStr[2], MetaName(FStr)[1]>> :> 6),
     inodes |-> DiskWithF.inodes \o
                <<DirInode,
                  FileInode(Encrypted(KeyGood, IvZero, Hello)),
                  FileInode(marshalEncFileMeta(
                      [name |-> PathJoin(BaseStr, FStr), iv |-> IvZero]))>>]

\* the inodes of a disk that hold the text Hello encrypted
HelloInodes(d) ==
    {k \in 1 .. Len(d.inodes) :
        d.inodes[k] = FileInode(Encrypted(KeyGood, IvZero, Hello))}

InitWith(cfg, d) ==
    /\ encFs = cfg
    /\ disk = d
    /\ pathExistsMap = <<>>
    /\ handles = <<>>
    /\ last = NoCall
    /\ plain = [k \in 1 .. Len(d.inodes) |->
                   [i \in 1 .. Len(d.inodes[k].data) |->
                       IF k \in HelloInodes(d)
                       THEN [v |-> Hello[i].v, tag |-> <<KeyGood.id, IvZero>>]
                       ELSE Unwritten]]
    /\ openers = [p \in 1 .. MaxOpeners |-> IdleOpener]
    /\ used = IF HelloInodes(d) # {}
              THEN {<<KeyGood.id, IvZero, i - 1, Hello[i].v>> :
                        i \in 1 .. Len(Hello)}
              ELSE {}

Init == \E d \in {EmptyDisk, DiskWithF} : InitWith(CfgDefault, d)

(***************************************************************************)
(* The facade's operations as actions.                                     *)
(***************************************************************************)
\* a facade call returned r
FsDone(op, name, name2, r) ==
    /\ last.seq < MaxCalls
    /\ Len(r.disk.inodes) <= MaxInodes
    /\ disk' = r.disk
    /\ pathExistsMap' = r.cache
    /\ handles' = IF r.err = "nil" /\ r.encFile # NilEncFile
                  THEN Append(handles, r.encFile) ELSE handles
    /\ last' = Call(op, IF r.err = "nil" /\ r.encFile # NilEncFile
                        THEN Len(handles) + 1 ELSE 0,
                    name, name2, 0, <<>>, r.err, 0, <<>>, r.calls)
    /\ plain' = PlainAfter(disk, r.disk, 0, 0, <<>>, <<>>)
    /\ UNCHANGED <<encFs, used, openers>>

FsCreate(name, iv) ==
    IF encFs.variant = "basedir"
    THEN BaseDirCreate(encFs, disk, pathExistsMap, name, iv)
    ELSE NameEncCreate(encFs, disk, pathExistsMap, name, iv)

FsOpen(name, iv) ==
    IF encFs.variant = "basedir"
    THEN BaseDirOpen(encFs, disk, pathExistsMap, name, iv)
    ELSE NameEncOpen(encFs, disk, pathExistsMap, name, iv)

FsOpenFile(name, flag, iv) ==
    IF encFs.variant = "basedir"
    THEN BaseDirOpenFile(encFs, disk, pathExistsMap, name, flag, FALSE, iv,
                         "os.OpenFile")
    ELSE NameEncOpenFile(encFs, disk, pathExistsMap, name, flag, FALSE, iv,
                         "os.OpenFile")

FsRemove(name) ==
    IF encFs.variant = "basedir"
    THEN BaseDirRemove(encFs, disk, pathExistsMap, name)
    ELSE NameEncRemove(encFs, disk, pathExistsMap, name)

FsRemoveAll(path) ==
    IF encFs.variant = "basedir"
    THEN BaseDirRemoveAll(encFs, disk, pathExistsMap, path)
    ELSE NameEncRemoveAll(encFs, disk, pathExistsMap, path)

FsRename(oldname, newname) ==
    IF encFs.variant = "basedir"
    THEN BaseDirRename(encFs, disk, pathExistsMap, oldname, newname)
    ELSE NameEncRename(encFs, disk, pathExistsMap, oldname, newname)

FsMkdir(name) ==
    IF encFs.variant = "basedir"
    THEN BaseDirMkdir(encFs, disk, pathExistsMap, name)
    ELSE NameEncMkdir(encFs, disk, pathExistsMap, name)

FsMkdirAll(path) ==
    IF encFs.variant = "basedir"
    THEN BaseDirMkdirAll(encFs, disk, pathExistsMap, path)
    ELSE NameEncMkdirAll(encFs, disk, pathExistsMap, path)

Names == {FStr, DotStr}
OpenFlags == {O_RDWR, O_APPEND_RDWR}

CreateIn(names) ==
    \E name \in names, iv \in IVs :
        /\ Len(handles) < MaxHandles
        /\ FsDone("Create", name, EmptyStr, FsCreate(name, iv))

OpenIn(names) ==
    \E name \in names, iv \in IVs :
        /\ Len(handles) < MaxHandles
        /\ FsDone("Open", name, EmptyStr, FsOpen(name, iv))

OpenFileIn(names) ==
    \E name \in names, flag \in OpenFlags, iv \in IVs :
        /\ Len(handles) < MaxHandles
        /\ FsDone("OpenFile", name, EmptyStr, FsOpenFile(name, flag, iv))

RemoveIn(names) ==
    \E name \in names :
        FsDone("Remove", name, EmptyStr, FsRemove(name))

Create == CreateIn(Names)
Open == OpenIn(Names)
OpenFile == OpenFileIn(Names)
Remove == RemoveIn(Names)

(***************************************************************************)
(* The facade called with paths of every kind, under each configuration:   *)
(* "f", "g", the sidecar's name "f.__encfile" and the root "/".            *)
(***************************************************************************)
Paths == {FStr, GStr, MetaName(FStr), SlashStr}

InitFs ==
    \E cfg \in {CfgDefault, CfgNameEnc, CfgBaseDir} : InitWith(cfg, DiskWithB)

CreatePath == last.seq < MaxFsCalls /\ CreateIn(Paths)
OpenPath == last.seq < MaxFsCalls /\ OpenIn(Paths)
OpenFilePath == last.seq < MaxFsCalls /\ OpenFileIn(Paths)
RemovePath == last.seq < MaxFsCalls /\ RemoveIn(Paths)

RemoveAll ==
    \E path \in Paths :
        /\ last.seq < MaxFsCalls
        /\ FsDone("RemoveAll", path, EmptyStr, FsRemoveAll(path))

Rename ==
    \E oldname \in Paths, newname \in Paths :
        /\ last.seq < MaxFsCalls
        /\ FsDone("Rename", oldname, newname, FsRename(oldname, newname))

Mkdir ==
    \E name \in Paths :
        /\ last.seq < MaxFsCalls
        /\ FsDone("Mkdir", name, EmptyStr, FsMkdir(name))

MkdirAll ==
    \E path \in Paths :
        /\ last.seq < MaxFsCalls
        /\ FsDone("MkdirAll", path, EmptyStr, FsMkdirAll(path))

NextFs ==
    \/ CreatePath
    \/ OpenPath
    \/ OpenFilePath
    \/ RemovePath
    \/ RemoveAll
    \/ Rename
    \/ Mkdir
    \/ MkdirAll

SpecFs == InitFs /\ [][NextFs]_vars

(***************************************************************************)
(* The handle's methods as actions.                                        *)
(***************************************************************************)
\* the offset at which the backend stores the bytes of file.Write
StorePos(file) ==
    IF file.append THEN Len(DataOf(disk, file)) ELSE file.off

\* a method of handle h returned r; it stored the plaintext w at offset at
\* of the file, encrypted with the keystream of offset ksOff
Done(op, h, off, arg, r, w, at, ksOff) ==
    Let(r.err = "nil" /\ w # <<>>, LAMBDA stored :
    Let(handles[h], LAMBDA f :
        /\ last.seq < MaxCalls
        /\ handles' = [handles EXCEPT ![h] = r.f]
        /\ disk' = r.disk
        /\ last' = Call(op, h, EmptyStr, EmptyStr, off, arg, r.err, r.n, r.p,
                        r.calls)
        /\ plain' = IF stored
                    THEN PlainAfter(disk, r.disk, f.file.ino, at, w,
                                    EncTag(encFs, f))
                    ELSE PlainAfter(disk, r.disk, 0, 0, <<>>, <<>>)
        /\ used' = IF stored /\ EncActive(encFs, f)
                   THEN used \cup {<<encFs.key.key.id, f.encFileMeta.iv,
                                     ksOff + i - 1, w[i].v>> : i \in 1 .. Len(w)}
                   ELSE used
        /\ UNCHANGED <<encFs, pathExistsMap, openers>>))

Hs == 1 .. Len(handles)
WriteBufs == {Hello, Upper, <<>>}
ReadLens == {5, 11}
Offsets == {-1, 0, 6, 11}
SeekArgs == {<<0, SEEK_SET>>, <<6, SEEK_SET>>, <<-1, SEEK_CUR>>, <<0, SEEK_END>>}
Sizes == {-1, 0, 3}
Counts == {-1, 0, 1, 2}

Close ==
    \E h \in Hs :
        Done("Close", h, 0, <<>>, EncFileClose(encFs, disk, handles[h]),
             <<>>, 0, 0)

Read ==
    \E h \in Hs, n \in ReadLens :
        Done("Read", h, handles[h].filePos, <<n>>,
             EncFileRead(encFs, disk, handles[h], Blank(n)), <<>>, 0, 0)

ReadAt ==
    \E h \in Hs, n \in ReadLens, off \in Offsets :
        Done("ReadAt", h, off, <<n>>,
             EncFileReadAt(encFs, disk, handles[h], Blank(n), off), <<>>, 0, 0)

Seek ==
    \E h \in Hs, a \in SeekArgs :
        Let(EncFileSeek(encFs, disk, handles[h], a[1], a[2]), LAMBDA r :
            /\ r.n <= MaxFileLen
            /\ Done("Seek", h, a[1], <<a[2]>>, r, <<>>, 0, 0))

Write ==
    \E h \in Hs, p \in WriteBufs :
        /\ StorePos(handles[h].file) + Len(p) <= MaxFileLen
        /\ handles[h].filePos + Len(p) <= MaxFileLen
        /\ Done("Write", h, handles[h].filePos, p,
                EncFileWrite(encFs, disk, handles[h], p), p,
                StorePos(handles[h].file), handles[h].filePos)

WriteAt ==
    \E h \in Hs, p \in WriteBufs, off \in Offsets :
        /\ off + Len(p) <= MaxFileLen
        /\ Done("WriteAt", h, off, p,
                EncFileWriteAt(encFs, disk, handles[h], p, off), p, off, off)

WriteString ==
    \E h \in Hs :
        /\ StorePos(handles[h].file) + Len(Upper) <= MaxFileLen
        /\ handles[h].filePos + Len(Upper) <= MaxFileLen
        /\ Done("WriteString", h, handles[h].filePos, Upper,
                EncFileWriteString(encFs, disk, handles[h], Upper), Upper,
                StorePos(handles[h].file), handles[h].filePos)

Stat ==
    \E h \in Hs :
        Done("Stat", h, 0, <<>>, EncFileStat(encFs, disk, handles[h]),
             <<>>, 0, 0)

Sync ==
    \E h \in Hs :
        Done("Sync", h, 0, <<>>, EncFileSync(encFs, disk, handles[h]),
             <<>>, 0, 0)

Truncate ==
    \E h \in Hs, size \in Sizes :
        Done("Truncate", h, size, <<>>,
             EncFileTruncate(encFs, disk, handles[h], size), <<>>, 0, 0)

Readdir ==
    \E h \in Hs, count \in Counts :
        \E r \in FileReaddir(disk, handles[h].file, count * 2) :
            Done("Readdir", h, count, r.p,
                 EncFileReaddir(encFs, disk, handles[h], count, r), <<>>, 0, 0)

Readdirnames ==
    \E h \in Hs, count \in Counts :
        \E r \in FileReaddir(disk, handles[h].file, count * 2) :
            Done("Readdirnames", h, count, r.p,
                 EncFileReaddirnames(encFs, disk, handles[h], count, r),
                 <<>>, 0, 0)

Next ==
    \/ Create
    \/ Open
    \/ OpenFile
    \/ Remove
    \/ Close
    \/ Read
    \/ ReadAt
    \/ Seek
    \/ Write
    \/ WriteAt
    \/ WriteString
    \/ Stat
    \/ Sync
    \/ Truncate
    \/ Readdir
    \/ Readdirnames

Spec == Init /\ [][Next]_vars
(***************************************************************************)
(* Concurrent callers of Create and OpenFile on the path "f".  Each call   *)
(* runs the statements of the facade method, of NewEncFile and of          *)
(* openOrNewEncFileMeta one backend call at a time; nothing in the code    *)
(* orders the backend calls of two callers.                                *)
(***************************************************************************)
\* opener p goes on as rec, the disk becoming d
Pending(p, rec, d) ==
    /\ openers' = [openers EXCEPT ![p] = rec]
    /\ disk' = d
    /\ plain' = PlainAfter(disk, d, 0, 0, <<>>, <<>>)
    /\ UNCHANGED <<encFs, pathExistsMap, used, handles, last>>

\* the call of opener p returns err, and the handle of file with record
\* meta when err is nil, the disk becoming d
Returned(p, op, err, file, meta, d) ==
    /\ last.seq < MaxCalls
    /\ openers' = [openers EXCEPT ![p] = [IdleOpener EXCEPT !.pc = "done",
                                                         !.op = op]]
    /\ disk' = d
    /\ plain' = PlainAfter(disk, d, 0, 0, <<>>, <<>>)
    /\ handles' = IF err = "nil"
                  THEN Append(handles,
                              [isDir |-> IsDirFile(disk, file),
                               closed |-> FALSE, encFileMeta |-> meta,
                               filePos |-> 0, file |-> file])
                  ELSE handles
    /\ last' = Call(op, IF err = "nil" THEN Len(handles) + 1 ELSE 0, FStr,
                    EmptyStr, 0, <<>>, err, 0, <<>>, <<>>)
    /\ UNCHANGED <<encFs, pathExistsMap, used>>

\* EncFs.Create / EncFs.OpenFile up to the return of os.Create / os.OpenFile
EncFsOpen ==
    \E p \in 1 .. MaxOpeners :
        /\ openers[p].pc = "idle"
        /\ \E call \in {<<"Create", O_CREATE_TRUNC_RDWR, TRUE>>,
                        <<"OpenFile", O_RDWR, FALSE>>} :
               Let(OsOpenFile(disk, FStr, call[2]), LAMBDA o :
                   IF o.err # "nil"
                   THEN Returned(p, call[1], o.err, NilFile, NoMeta, o.disk)
                   ELSE Pending(p, [openers[p] EXCEPT !.pc = "stat",
                                                      !.op = call[1],
                                                      !.isCreate = call[3],
                                                      !.file = o.file],
                                o.disk))

\* NewEncFile: file.Stat() and os.Stat(name)
NewEncFileStat ==
    \E p \in 1 .. MaxOpeners :
        /\ openers[p].pc = "stat"
        /\ Let(OsStat(disk, FStr), LAMBDA fileState :
               IF IsDirFile(disk, openers[p].file)
               THEN Returned(p, openers[p].op, "nil", openers[p].file, NoMeta,
                             disk)
               ELSE Pending(p, [openers[p] EXCEPT
                                   !.pc = "openMeta",
                                   !.isCreate =
                                       \/ @
                                       \/ /\ fileState.err = "nil"
                                          /\ ~fileState.isDir
                                          /\ fileState.size = 0],
                            disk))

\* openEncFileMeta(name), called by NewEncFile or by openOrNewEncFileMeta
NewEncFileOpenMeta ==
    \E p \in 1 .. MaxOpeners :
        /\ openers[p].pc = "openMeta"
        /\ Let(openEncFileMeta(disk, FStr), LAMBDA old :
               IF old.err = "nil" /\ old.meta # NoMeta
               THEN Returned(p, openers[p].op, "nil", openers[p].file,
                             old.meta, disk)
               ELSE IF openers[p].isCreate
               THEN Pending(p, [openers[p] EXCEPT !.pc = "createMeta"], disk)
               ELSE Returned(p, openers[p].op, old.err,
                             IF old.err = "nil" THEN openers[p].file
                             ELSE NilFile,
                             NoMeta, disk))

\* openOrNewEncFileMeta: rand.Read(iv) and os.Create(encFileMetaName)
openOrNewCreate ==
    \E p \in 1 .. MaxOpeners, iv \in IVs :
        /\ openers[p].pc = "createMeta"
        /\ Let(OsCreate(disk, MetaName(FStr)), LAMBDA c :
               IF c.err # "nil"
               THEN Returned(p, openers[p].op, c.err, NilFile, NoMeta, c.disk)
               ELSE Pending(p, [openers[p] EXCEPT !.pc = "writeMeta",
                                                  !.iv = iv,
                                                  !.metaFile = c.file],
                            c.disk))

\* openOrNewEncFileMeta: encFileMetaFile.Write(encFileMetaBytes), and the
\* return of the handle
openOrNewWrite ==
    \E p \in 1 .. MaxOpeners :
        /\ openers[p].pc = "writeMeta"
        /\ Let(FileWrite(disk, openers[p].metaFile,
                         marshalEncFileMeta([name |-> FStr,
                                             iv |-> openers[p].iv])),
               LAMBDA w :
               Returned(p, openers[p].op, w.err, openers[p].file,
                        [name |-> FStr, iv |-> openers[p].iv], w.disk))

NextRace ==
    \/ EncFsOpen
    \/ NewEncFileStat
    \/ NewEncFileOpenMeta
    \/ openOrNewCreate
    \/ openOrNewWrite
    \/ Write

SpecRace == Init /\ [][NextRace]_vars

(***************************************************************************)
(* The name cipher called directly: EncryptFileName and DecryptFileName on *)
(* paths of every kind, on a tree that holds a legacy directory whose      *)
(* plaintext name starts with the marker, "__ENCFS__~".                    *)
(***************************************************************************)
MarkSeg == <<ENCRYPTED_FILE_NAME_PREFIX, Chr("~")>>
MarkStr == <<EmptySeg, MarkSeg>>

DiskWithMark ==
    [dirents |-> DiskWithF.dirents @@ (<<MarkSeg>> :> 4),
     inodes |-> DiskWithF.inodes \o <<DirInode>>]

\* the root holding the directory "g" under its encrypted name, and in it
\* the file "f" under its plaintext name
DiskWithEncG ==
    [dirents |-> (RootPath :> 1)
                 @@ (encryptFileNamePart(CfgNameEnc.key, GStr) :> 2)
                 @@ (encryptFileNamePart(CfgNameEnc.key, GStr) \o FStr :> 3),
     inodes |-> <<DirInode, DirInode, FileInode(<<>>)>>]

NamePaths ==
    {FStr, <<EmptySeg>> \o FStr, <<EmptySeg>> \o GStr, MarkStr,
     MarkStr \o GStr, <<EmptySeg>> \o GStr \o FStr, SlashStr}

InitName ==
    \E cfg \in {CfgDefault, CfgNameEnc},
       d \in {EmptyDisk, DiskWithF, DiskWithMark, DiskWithEncG} :
           InitWith(cfg, d)

\* a call of the name cipher returned name2 for name
NameDone(op, name, name2, cache, calls) ==
    /\ last.seq < MaxNameCalls
    /\ pathExistsMap' = cache
    /\ last' = Call(op, 0, name, name2, 0, <<>>, "nil", 0, <<>>, calls)
    /\ UNCHANGED <<encFs, disk, handles, plain, used, openers>>

EncryptName ==
    \E name \in NamePaths :
        Let(EncryptFileName(encFs.key, disk, pathExistsMap, name), LAMBDA r :
            NameDone("EncryptFileName", name, r.name, r.cache, r.calls))

\* DecryptFileName of a path, or of what the last call returned
DecryptName ==
    \E name \in NamePaths \cup {last.name2} :
        NameDone("DecryptFileName", name, DecryptFileName(encFs.key, name),
                 pathExistsMap, <<>>)

NextName ==
    \/ EncryptName
    \/ DecryptName

SpecName == InitName /\ [][NextName]_vars

(***************************************************************************)
(* The keystream engine called directly, once, on an IV, an offset and a   *)
(* length of every alignment.                                              *)
(***************************************************************************)
KeystreamCall ==
    \E iv \in IVs, offset \in 0 .. MaxKsOffset, len \in 0 .. MaxKsLen :
        Let(generateCtrEncryptBytes(encFs.key.key, iv, offset, len), LAMBDA r :
            /\ last.op = "none"
            /\ last' = Call("generateCtrEncryptBytes", 0, EmptyStr, EmptyStr,
                            offset, <<iv, len>>, r.err, Len(r.bytes), r.bytes,
                            <<>>)
            /\ UNCHANGED <<encFs, disk, pathExistsMap, handles, plain, used,
                           openers>>)

InitKs == InitWith(CfgDefault, EmptyDisk)

NextKs == KeystreamCall

SpecKs == InitKs /\ [][NextKs]_vars

(***************************************************************************)
(* Files the facade did not write: the file "f" found empty or holding     *)
(* plaintext with no sidecar, or with a sidecar whose content is no JSON.  *)
(***************************************************************************)
\* "{": the text of a sidecar that does not deserialize
CorruptJson == Bytes(<<123>>)

DiskWithFile(data) ==
    [dirents |-> (RootPath :> 1) @@ (<<FStr[1]>> :> 2),
     inodes |-> <<DirInode, FileInode(data)>>]

DiskWithSidecar(data, sidecar) ==
    [dirents |-> DiskWithFile(data).dirents @@ (<<MetaName(FStr)[1]>> :> 3),
     inodes |-> DiskWithFile(data).inodes \o <<FileInode(sidecar)>>]

LegacyDisks ==
    {DiskWithFile(<<>>), DiskWithFile(Hello),
     DiskWithSidecar(<<>>, CorruptJson),
     DiskWithSidecar(Encrypted(KeyGood, IvZero, Hello), CorruptJson),
     DiskWithSidecar(<<>>, marshalEncFileMeta([name |-> FStr, iv |-> IvEdge]))}

InitLegacy == \E d \in LegacyDisks : InitWith(CfgDefault, d)

LegacyNames == {FStr}

NextLegacy ==
    \/ last.seq < MaxLegacyCalls /\ CreateIn(LegacyNames)
    \/ last.seq < MaxLegacyCalls /\ OpenIn(LegacyNames)
    \/ last.seq < MaxLegacyCalls /\ OpenFileIn(LegacyNames)
    \/ last.seq < MaxLegacyCalls /\ Read
    \/ last.seq < MaxLegacyCalls /\ ReadAt
    \/ last.seq < MaxLegacyCalls /\ Seek
    \/ last.seq < MaxLegacyCalls /\ Write
    \/ last.seq < MaxLegacyCalls /\ WriteAt

SpecLegacy == InitLegacy /\ [][NextLegacy]_vars

(***************************************************************************)
(* nonceAdd called directly, once, on counters and block indices at and    *)
(* around the ends of the 64-bit range.                                    *)
(***************************************************************************)
U64Edges ==
    {ToU64(0), ToU64(1), ToU64(ByteMod - 1), ToU64(ByteMod),
     [i \in 1 .. U64Bytes |-> IF i = 1 THEN ByteMod \div 2 ELSE 0],
     U64Sub(MaxUint64, ToU64(ByteMod - 1)), U64Sub(MaxUint64, ToU64(1)),
     MaxUint64}

NonceIvs ==
    {hi \o lo : hi \in {ToU64(0), ToU64(ByteMod - 1), MaxUint64},
                lo \in U64Edges}

NonceAddCall ==
    \E iv \in NonceIvs, k \in U64Edges :
        /\ last.op = "none"
        /\ last' = Call("nonceAdd", 0, EmptyStr, EmptyStr, 0, <<iv, k>>,
                        "nil", 0, nonceAdd(iv, k), <<>>)
        /\ UNCHANGED <<encFs, disk, pathExistsMap, handles, plain, used,
                       openers>>

InitNonce == InitWith(CfgDefault, EmptyDisk)

NextNonce == NonceAddCall

SpecNonce == InitNonce /\ [][NextNonce]_vars

\* the counter blocks of two blocks of one file: nonceAdd called with a
\* block index, then again with the same IV and another block index
NonceAddAgain ==
    \E k \in U64Edges :
        /\ last.op = "nonceAdd"
        /\ last.seq < MaxNonceCalls
        /\ last' = Call("nonceAdd", 0, EmptyStr, EmptyStr, 0,
                        <<last.arg[1], k>>, "nil", 0,
                        nonceAdd(last.arg[1], k), <<>>)
        /\ UNCHANGED <<encFs, disk, pathExistsMap, handles, plain, used,
                       openers>>

NextNoncePair ==
    \/ NonceAddCall
    \/ NonceAddAgain

SpecNoncePair == InitNonce /\ [][NextNoncePair]_vars

(***************************************************************************)
(* Listing a directory in steps: the root holds "f" and "g" and their      *)
(* sidecars; handles on "." are opened and read with Readdir and           *)
(* Readdirnames of every count, the backend choosing the order.            *)
(***************************************************************************)
DiskWithFG ==
    [dirents |-> DiskWithF.dirents @@ (<<GStr[1]>> :> 4)
                 @@ (<<MetaName(GStr)[1]>> :> 5),
     inodes |-> DiskWithF.inodes \o
                <<FileInode(<<>>),
                  FileInode(marshalEncFileMeta([name |-> GStr, iv |-> IvEdge]))>>]

InitDir == InitWith(CfgDefault, DiskWithFG)

NextDir ==
    \/ last.seq < MaxDirCalls /\ OpenIn({DotStr})
    \/ last.seq < MaxDirCalls /\ Readdir
    \/ last.seq < MaxDirCalls /\ Readdirnames
    \/ last.seq < MaxDirCalls /\ Close

SpecDir == InitDir /\ [][NextDir]_vars

(***************************************************************************)
(* Concurrent callers of EncryptFileName on one master key with a name-IV. *)
(* Each caller runs recursiveEncrpteFileName and existsPath one statement  *)
(* at a time: Lock, the map lookup, os.Stat, the map store, the deferred   *)
(* Unlock.  Between any two statements another process may create or       *)
(* remove the directory "/g".  A caller's record holds its place (pc), the *)
(* name it was called with (input), the path it probes (path), the         *)
(* segments still to encrypt (rest), the boolean existsPath returns        *)
(* (exists), and as history the paths it passed to os.Stat (statted) and   *)
(* the first result it returned for each input (results).                  *)
(***************************************************************************)
IdleCaller ==
    [pc |-> "idle", input |-> EmptyStr, path |-> EmptyStr, rest |-> <<>>,
     exists |-> FALSE, statted |-> <<>>, results |-> <<>>]

\* the places at which a caller holds k.mutex
InMutex == {"lookup", "stat", "store", "unlock"}

Holders(ops) == {p \in DOMAIN ops : ops[p].pc \in InMutex}

\* a Lock that never waits
LockAlwaysGranted(ops, p) == TRUE

\* k.mutex.Lock() returns for caller p
LockGranted(ops, p) == Holders(ops) = {}

CachePaths == {<<EmptySeg>> \o GStr, <<EmptySeg>> \o GStr \o FStr}

InitCache ==
    /\ encFs = CfgNameEnc
    /\ disk = DiskWithF
    /\ pathExistsMap = <<>>
    /\ handles = <<>>
    /\ last = NoCall
    /\ plain = [k \in 1 .. Len(DiskWithF.inodes) |->
                   [i \in 1 .. Len(DiskWithF.inodes[k].data) |-> Unwritten]]
    /\ used = {}
    /\ openers = [p \in 1 .. MaxOpeners |-> IdleCaller]

\* caller p moves to the record rec
CallerStep(p, rec) ==
    /\ openers' = [openers EXCEPT ![p] = rec]
    /\ UNCHANGED <<encFs, disk, pathExistsMap, handles, last, plain, used>>

\* path.Join(parentName, currentName) on the way back, from the base up
RECURSIVE JoinEncrypted(_, _, _)
JoinEncrypted(k, base, rest) ==
    IF rest = <<>> THEN base
    ELSE JoinEncrypted(k, PathJoin(base, encryptFileNamePart(k, Head(rest))),
                       Tail(rest))

\* EncryptFileName returns to caller p, base the deepest path left plain
CallerReturn(p, base) ==
    Let(JoinEncrypted(encFs.key, base, openers[p].rest), LAMBDA encryptedName :
        /\ openers' = [openers EXCEPT ![p] =
               [IdleCaller EXCEPT
                   !.statted = openers[p].statted,
                   !.results =
                       IF openers[p].input \in DOMAIN openers[p].results
                       THEN openers[p].results
                       ELSE openers[p].results
                            @@ (openers[p].input :> encryptedName)]]
        /\ last' = Call("EncryptFileName", p, openers[p].input, encryptedName,
                        0, <<>>, "nil", 0, <<>>, <<>>)
        /\ UNCHANGED <<encFs, disk, pathExistsMap, handles, plain, used>>)

\* EncryptFileName(name) up to the call of recursiveEncrpteFileName(absName)
CacheCall ==
    \E p \in 1 .. MaxOpeners, name \in CachePaths :
        /\ openers[p].pc = "idle"
        /\ last.seq + Cardinality({q \in 1 .. MaxOpeners :
                                      openers[q].pc # "idle"}) < MaxCacheCalls
        /\ CallerStep(p, [openers[p] EXCEPT !.pc = "enter",
                                            !.input = name,
                                            !.path = FilepathAbs(name),
                                            !.rest = <<>>])

\* recursiveEncrpteFileName: name == "" || name == "/"
recursiveReturnRoot ==
    \E p \in 1 .. MaxOpeners :
        /\ openers[p].pc = "enter"
        /\ openers[p].path \in {EmptyStr, SlashStr}
        /\ CallerReturn(p, openers[p].path)

\* existsPath: k.mutex.Lock()
existsPathLock ==
    \E p \in 1 .. MaxOpeners :
        /\ openers[p].pc = "enter"
        /\ openers[p].path \notin {EmptyStr, SlashStr}
        /\ LockGranted(openers, p)
        /\ CallerStep(p, [openers[p] EXCEPT !.pc = "lookup"])

\* existsPath: exists, found := k.pathExistsMap[path]
existsPathLookup ==
    \E p \in 1 .. MaxOpeners :
        /\ openers[p].pc = "lookup"
        /\ IF openers[p].path \in DOMAIN pathExistsMap
           THEN CallerStep(p, [openers[p] EXCEPT
                                  !.pc = "unlock",
                                  !.exists = pathExistsMap[openers[p].path]])
           ELSE CallerStep(p, [openers[p] EXCEPT !.pc = "stat"])

\* existsPath: _, err := os.Stat(path); exists := err == nil
existsPathStat ==
    \E p \in 1 .. MaxOpeners :
        /\ openers[p].pc = "stat"
        /\ CallerStep(p, [openers[p] EXCEPT
                             !.pc = "store",
                             !.exists = OsStat(disk, openers[p].path).err = "nil",
                             !.statted = Append(@, openers[p].path)])

\* existsPath: k.pathExistsMap[path] = exists
existsPathStore ==
    \E p \in 1 .. MaxOpeners :
        /\ openers[p].pc = "store"
        /\ pathExistsMap' =
               [q \in DOMAIN pathExistsMap \cup {openers[p].path} |->
                   IF q = openers[p].path THEN openers[p].exists
                   ELSE pathExistsMap[q]]
        /\ openers' = [openers EXCEPT ![p].pc = "unlock"]
        /\ UNCHANGED <<encFs, disk, handles, last, plain, used>>

\* existsPath: the deferred k.mutex.Unlock() and the return; then
\* recursiveEncrpteFileName returns name, or trims and splits it and
\* calls itself on the parent
existsPathUnlock ==
    \E p \in 1 .. MaxOpeners :
        /\ openers[p].pc = "unlock"
        /\ IF openers[p].exists
           THEN CallerReturn(p, openers[p].path)
           ELSE Let(TrimSlashes(openers[p].path), LAMBDA trimmed :
                    CallerStep(p, [openers[p] EXCEPT
                        !.pc = "enter",
                        !.path = PathSplitDir(trimmed),
                        !.rest = <<PathSplitFile(trimmed)>> \o @]))

\* another process creates or removes the directory "/g"
BackendChange ==
    \E r \in {OsMkdir(disk, <<EmptySeg>> \o GStr),
              OsRemove(disk, <<EmptySeg>> \o GStr)} :
        /\ r.err = "nil"
        /\ Len(r.disk.inodes) <= MaxInodes
        /\ disk' = r.disk
        /\ plain' = PlainAfter(disk, r.disk, 0, 0, <<>>, <<>>)
        /\ UNCHANGED <<encFs, pathExistsMap, handles, last, used, openers>>

NextCache ==
    \/ CacheCall
    \/ recursiveReturnRoot
    \/ existsPathLock
    \/ existsPathLookup
    \/ existsPathStat
    \/ existsPathStore
    \/ existsPathUnlock
    \/ BackendChange

SpecCache == InitCache /\ [][NextCache]_vars

(***************************************************************************)
(* What the claims speak of.                                               *)
(***************************************************************************)
\* the handle the last call was made on, and its key and IV
LastHandle == handles[last.h]
LastActive == last.h # 0 /\ EncActive(encFs, LastHandle)

\* keystream(key, iv, offset, n) of handle f
Keystream(f, offset, n) ==
    generateCtrEncryptBytes(encFs.key.key, f.encFileMeta.iv, offset, n).bytes

\* the n bytes the backend holds from offset off of file's inode
Stored(d, file, off, n) == SubSeq(d.inodes[file.ino].data, off + 1, off + n)

(***************************************************************************)
(* C6: ReadAt and WriteAt leave the cursor of the handle (and of every     *)
(* other handle) where it was, for every offset and buffer, whether the    *)
(* call succeeds or fails; so the keystream offset of the next Read or     *)
(* Write is the one it had before them.                                    *)
(***************************************************************************)
C6_PositionalKeepsCursor ==
    [][last'.op \in {"ReadAt", "WriteAt"} =>
          \A h \in DOMAIN handles :
              handles'[h].filePos = handles[h].filePos]_vars

\* a WriteAt of five bytes at offset 6 succeeded on a handle whose cursor
\* stands at 11
C6_Witness ==
    /\ last.op = "WriteAt" /\ last.err = "nil" /\ last.n = 5 /\ last.off = 6
    /\ LastHandle.filePos = 11

(***************************************************************************)
(* C7: a successful Read or Write of n bytes moves the cursor forward by   *)
(* n and XORs the bytes it transfers with keystream(key, iv, cursor before *)
(* the call, n); a successful Seek sets the cursor to the position the     *)
(* backend reports; a failed Seek leaves the cursor alone.                 *)
(***************************************************************************)
C7_CursorStep ==
    LET c == last'
        f == handles[c.h]
        g == handles'[c.h]
        ks == Keystream(f, f.filePos, c.n)
        moved(buf) == IF EncActive(encFs, f) THEN XorPrefix(buf, ks, c.n)
                      ELSE buf
    IN  /\ c.op = "Read" /\ c.err = "nil" =>
              /\ g.filePos = f.filePos + c.n
              /\ SubSeq(c.p, 1, c.n) = moved(Stored(disk, f.file, f.file.off, c.n))
        /\ c.op \in {"Write", "WriteString"} /\ c.err = "nil" =>
              /\ g.filePos = f.filePos + c.n
              /\ Stored(disk', f.file, StorePos(f.file), c.n) = moved(c.arg)
        /\ c.op = "Seek" /\ c.err = "nil" =>
              g.filePos = c.n /\ g.filePos = g.file.off
        /\ c.op = "Seek" /\ c.err # "nil" => g.filePos = f.filePos

C7_CursorAdvances == [][C7_CursorStep]_vars

\* a Write of five bytes succeeded with the cursor at 11 and left it at 16
C7_Witness ==
    /\ last.op = "Write" /\ last.err = "nil" /\ last.n = 5 /\ last.off = 11
    /\ LastActive /\ LastHandle.filePos = 16

(***************************************************************************)
(* C8: Readdir(count) and Readdirnames(count) return no entry whose        *)
(* backend name ends in ".__encfile", for every count, and at most count   *)
(* entries when count > 0.                                                 *)
(***************************************************************************)
C8_NoSidecarListed ==
    last.op \in {"Readdir", "Readdirnames"} /\ last.err = "nil" =>
        /\ \A i \in 1 .. Len(last.p) :
               ~HasEncFileExt(IF last.op = "Readdir" THEN <<last.p[i]>>
                              ELSE last.p[i])
        /\ last.n = Len(last.p)
        /\ last.off > 0 => Len(last.p) <= last.off

\* a Readdir(1) to which the backend gave a sidecar among its entries
\* returned one entry
C8_Witness ==
    /\ last.op = "Readdir" /\ last.err = "nil" /\ last.off = 1
    /\ \E i \in 1 .. Len(last.arg) : HasEncFileExt(<<last.arg[i]>>)
    /\ Len(last.p) = 1

(***************************************************************************)
(* C1: through a handle with content encryption active, a read of a range  *)
(* inside the file (Read at the cursor, or ReadAt) returns the plaintext   *)
(* last written at those offsets, and the backend holds that plaintext XOR *)
(* keystream(key, iv, offset); in particular ReadAt of 5 bytes at offset 6 *)
(* after 11 bytes were written at offset 0 returns bytes 6..10 of them,    *)
(* and the transform applied twice at one (key, iv, offset) is the         *)
(* identity.                                                               *)
(***************************************************************************)
\* byte i (from 1) of inode k was last written under the key and IV of f
WrittenBy(f, k, i) ==
    /\ i <= Len(plain[k])
    /\ plain[k][i] # Unwritten
    /\ plain[k][i].tag = EncTag(encFs, f)

C1_ReadReturnsWritten ==
    last.op \in {"Read", "ReadAt"} /\ last.err = "nil" /\ LastActive =>
        \A i \in 1 .. last.n :
            WrittenBy(LastHandle, LastHandle.file.ino, last.off + i) =>
                last.p[i] =
                    PlainCell(plain[LastHandle.file.ino][last.off + i].v)

C1_StoredIsXor ==
    \A h \in DOMAIN handles :
        EncActive(encFs, handles[h]) =>
            \A i \in 1 .. Len(DataOf(disk, handles[h].file)) :
                WrittenBy(handles[h], handles[h].file.ino, i) =>
                    DataOf(disk, handles[h].file)[i] =
                        XorCell(PlainCell(plain[handles[h].file.ino][i].v),
                                Keystream(handles[h], i - 1, 1)[1])

C1_TwiceIsIdentity ==
    \A iv \in IVs, off \in {0, 6, 15, 16, 17}, text \in {Hello, Upper, <<>>} :
        LET ks == generateCtrEncryptBytes(KeyGood, iv, off, Len(text)).bytes
        IN  XorPrefix(XorPrefix(text, ks, Len(text)), ks, Len(text)) = text

C1_RoundTrip ==
    /\ C1_ReadReturnsWritten
    /\ C1_StoredIsXor
    /\ C1_TwiceIsIdentity

(***************************************************************************)
(* C2: Create, Open or OpenFile of a file whose sidecar record exists      *)
(* leaves the sidecar as it was and gives the handle the IV the sidecar    *)
(* holds; so what a handle writes at an offset of a file with a sidecar is *)
(* the plaintext XOR the keystream of the sidecar's IV, the same           *)
(* ciphertext before and after the file is created or opened again.        *)
(***************************************************************************)
\* the inode and the bytes of name's sidecar, <<0, <<>>>> when it has none
SidecarAt(d, name) ==
    LET w == Walk(d, MetaName(name))
    IN  IF w.err = "nil" /\ Exists(d, w.path)
        THEN <<d.dirents[w.path], NodeAt(d, w.path).data>>
        ELSE <<0, <<>>>>

HasRecord(d, name) ==
    openEncFileMeta(d, name).err = "nil"
    /\ openEncFileMeta(d, name).meta # NoMeta

C2_OpenStep ==
    last'.op \in {"Create", "Open", "OpenFile"} /\ HasRecord(disk, last'.name)
    =>  /\ SidecarAt(disk', last'.name) = SidecarAt(disk, last'.name)
        /\ last'.h # 0 /\ ~handles'[last'.h].isDir =>
               handles'[last'.h].encFileMeta =
                   openEncFileMeta(disk, last'.name).meta

\* the absolute name of a canonical path
AbsName(q) == <<EmptySeg>> \o q

C2_SameCiphertext ==
    last.op = "WriteAt" /\ last.err = "nil" /\ LastActive =>
        \A q \in DOMAIN disk.dirents :
            disk.dirents[q] = LastHandle.file.ino /\ HasRecord(disk, AbsName(q))
            =>  Stored(disk, LastHandle.file, last.off, last.n) =
                    XorPrefix(last.arg,
                              generateCtrEncryptBytes(
                                  encFs.key.key,
                                  openEncFileMeta(disk, AbsName(q)).meta.iv,
                                  last.off, last.n).bytes,
                              last.n)

C2_ExistingSidecarReused == [][C2_OpenStep]_vars /\ []C2_SameCiphertext

\* Create on a file that has a sidecar returned a handle after reading the
\* sidecar and without creating one; the handle holds the sidecar's IV
C2_Witness ==
    /\ last.op = "Create" /\ last.err = "nil" /\ last.h # 0
    /\ last.calls = <<"os.Create", "file.Stat", "os.Stat", "os.Open",
                      "io.ReadAll">>
    /\ LastHandle.encFileMeta.iv = IvZero
    /\ SidecarAt(disk, last.name)[2] =
           marshalEncFileMeta([name |-> FStr, iv |-> IvZero])

(***************************************************************************)
(* C4: no (key, IV, offset) is ever used to encrypt two different          *)
(* plaintext bytes, so no keystream block is applied to two different      *)
(* plaintext blocks.                                                       *)
(***************************************************************************)
C4_NoKeystreamReuse ==
    \A a \in used : \A b \in used :
        a[1] = b[1] /\ a[2] = b[2] /\ a[3] = b[3] => a[4] = b[4]

(***************************************************************************)
(* C5: once a handle is closed, every later call on it, a second Close     *)
(* included, fails with afero.ErrFileClosed without calling the backend,   *)
(* and the handle stays closed.                                            *)
(***************************************************************************)
C5_ClosedStep ==
    last'.h # 0 /\ last'.h \in DOMAIN handles /\ last'.seq # last.seq
    /\ handles[last'.h].closed
    =>  /\ last'.err = "afero.ErrFileClosed"
        /\ last'.calls = <<>>
        /\ handles'[last'.h].closed

C5_ClosedIsTerminal == [][C5_ClosedStep]_vars

(***************************************************************************)
(* C9: with no name-IV configured, Create, Open and OpenFile of a name     *)
(* that ends in ".__encfile" fail with ErrFileForbiddenFileExt, return no  *)
(* handle and make no backend call; with a name-IV configured they are not *)
(* rejected for the suffix.                                                *)
(***************************************************************************)
C9_SuffixStep ==
    last'.op \in {"Create", "Open", "OpenFile"} /\ HasEncFileExt(last'.name)
    =>  IF encFs.key.fileNameIv = NoIv
        THEN /\ last'.err = "ErrFileForbiddenFileExt"
             /\ last'.calls = <<>>
             /\ last'.h = 0
             /\ disk' = disk
             /\ handles' = handles
        ELSE /\ last'.err # "ErrFileForbiddenFileExt"
             /\ last'.calls # <<>>

C9_SuffixForbidden == [][C9_SuffixStep]_vars

\* Create("f.__encfile") was rejected under a configuration without name-IV
C9_Witness ==
    /\ last.op = "Create" /\ last.name = MetaName(FStr)
    /\ encFs.key.fileNameIv = NoIv
    /\ last.err = "ErrFileForbiddenFileExt"

(***************************************************************************)
(* C10: with a base directory configured, RemoveAll, Rename (from or to)   *)
(* and Mkdir of a path that resolves to the cleaned base directory fail    *)
(* with os.ErrInvalid and make no backend call.                            *)
(***************************************************************************)
IsRoot(name) == resolve(encFs, name) = PathClean(encFs.baseDirectory)

C10_RootStep ==
    /\ encFs.baseDirectory # EmptyStr
    /\ last'.seq # last.seq
    /\ \/ last'.op \in {"RemoveAll", "Mkdir"} /\ IsRoot(last'.name)
       \/ last'.op = "Rename" /\ (IsRoot(last'.name) \/ IsRoot(last'.name2))
    =>  /\ last'.err = "os.ErrInvalid"
        /\ last'.calls = <<>>
        /\ disk' = disk

C10_RootProtected == [][C10_RootStep]_vars

(***************************************************************************)
(* C3: whatever the interleaving of concurrent Create and OpenFile calls   *)
(* and of writes on the path "f", once the content file is not empty the   *)
(* IV in its sidecar stays the same, and every open handle on the file     *)
(* holds the IV the sidecar holds.                                         *)
(***************************************************************************)
NonEmpty(d) == OsStat(d, FStr).err = "nil" /\ OsStat(d, FStr).size > 0

C3_SidecarStep ==
    NonEmpty(disk) /\ HasRecord(disk, FStr) /\ NonEmpty(disk')
    =>  /\ HasRecord(disk', FStr)
        /\ openEncFileMeta(disk', FStr).meta.iv
               = openEncFileMeta(disk, FStr).meta.iv

C3_HandlesHoldSidecarIv ==
    NonEmpty(disk) =>
        \A h \in DOMAIN handles :
            /\ ~handles[h].closed
            /\ ~handles[h].isDir
            /\ handles[h].file.ino = disk.dirents[Walk(disk, FStr).path]
            =>  /\ HasRecord(disk, FStr)
                /\ handles[h].encFileMeta.iv
                       = openEncFileMeta(disk, FStr).meta.iv

C3_IvNeverChanges == [][C3_SidecarStep]_vars /\ []C3_HandlesHoldSidecarIv


(***************************************************************************)
(* C11: the file name round trip.  With a name-IV, the decryption of the   *)
(* encryption of a non-empty segment is that segment, and DecryptFileName  *)
(* maps what EncryptFileName returned for a clean absolute path back to    *)
(* that path, segment by segment; with no name-IV both return their input. *)
(***************************************************************************)
NameSegs == UNION {{name[i] : i \in 1 .. Len(name)} : name \in NamePaths}

C11_SegmentRoundTrip ==
    encFs.key.fileNameIv # NoIv =>
        \A seg \in NameSegs \ {EmptySeg} :
            decrypteFileNamePart(
                encFs.key, encryptFileNamePart(encFs.key, <<seg>>)[1]) = seg

C11_PathStep ==
    /\ last'.op \in {"EncryptFileName", "DecryptFileName"}
       /\ encFs.key.fileNameIv = NoIv
       => last'.name2 = last'.name
    /\ last.op = "EncryptFileName"
       /\ last'.op = "DecryptFileName"
       /\ last'.name = last.name2
       /\ IsAbs(last.name)
       /\ PathClean(last.name) = last.name
       => last'.name2 = last.name

C11_NameRoundTrip == []C11_SegmentRoundTrip /\ [][C11_PathStep]_vars


(***************************************************************************)
(* C12: generateCtrEncryptBytes(key, iv, offset, length) returns exactly   *)
(* length bytes, for file offsets and lengths of every alignment, length 0 *)
(* included; for every split length = a + b the result is the keystream of *)
(* (offset, a) followed by that of (offset + a, b); and byte j is byte     *)
(* (offset + j) mod 16 of the cipher applied to the counter block of block *)
(* (offset + j) div 16, whatever the length asked for.                     *)
(***************************************************************************)
KsOf(iv, offset, len) ==
    generateCtrEncryptBytes(encFs.key.key, iv, offset, len).bytes

C12_KeystreamByRange ==
    last.op = "generateCtrEncryptBytes" =>
        Let(last.arg[1], LAMBDA iv :
        Let(last.arg[2], LAMBDA len :
            /\ last.err = "nil"
            /\ Len(last.p) = len
            /\ \A a \in 0 .. len :
                   last.p = KsOf(iv, last.off, a)
                            \o KsOf(iv, last.off + a, len - a)
            /\ \A j \in 0 .. len - 1 :
                   last.p[j + 1] =
                       AesBlock(encFs.key.key,
                                nonceAdd(iv, ToU64((last.off + j) \div BlockSize)))
                           [((last.off + j) % BlockSize) + 1]))

C12_Witness ==
    /\ last.op = "generateCtrEncryptBytes"
    /\ last.off % BlockSize # 0
    /\ last.off \div BlockSize # (last.off + last.n - 1) \div BlockSize
    /\ last.n = last.arg[2]
    /\ last.n > 0


(***************************************************************************)
(* C13: Open or OpenFile without create semantics of an existing regular   *)
(* file of size zero is treated as creation: when it succeeds the file has *)
(* a sidecar that holds a 16-byte IV, the handle returned encrypts with    *)
(* that IV, and a sidecar record that was there before is the one used.    *)
(***************************************************************************)
IsEmptyFile(d, name) ==
    /\ OsStat(d, name).err = "nil"
    /\ ~OsStat(d, name).isDir
    /\ OsStat(d, name).size = 0

C13_EmptyOpenStep ==
    /\ last'.op \in {"Open", "OpenFile"}
    /\ last'.err = "nil"
    /\ IsEmptyFile(disk, last'.name)
    =>  /\ HasRecord(disk', last'.name)
        /\ Len(openEncFileMeta(disk', last'.name).meta.iv) = BlockSize
        /\ last'.h # 0
        /\ EncActive(encFs, handles'[last'.h])
        /\ handles'[last'.h].encFileMeta.iv =
               openEncFileMeta(disk', last'.name).meta.iv
        /\ HasRecord(disk, last'.name) =>
               openEncFileMeta(disk', last'.name).meta.iv =
                   openEncFileMeta(disk, last'.name).meta.iv

C13_EmptyOpenCreates == [][C13_EmptyOpenStep]_vars

\* Open of the empty file "f" wrote a sidecar and returned a handle
C13_Witness ==
    /\ last.op = "Open" /\ last.err = "nil" /\ last.h # 0
    /\ IsEmptyFile(disk, last.name)
    /\ \E i \in DOMAIN last.calls : last.calls[i] = "file.Write"
    /\ HasRecord(disk, last.name)
    /\ LastActive


(***************************************************************************)
(* C14: Open or OpenFile without create semantics of a regular file that   *)
(* is not empty and has no sidecar succeeds, gives a handle with no        *)
(* metadata record and creates no sidecar; Read, ReadAt, Write and WriteAt *)
(* on a handle with no record move the bytes as they are, Read and Write   *)
(* advancing the cursor by the count and ReadAt and WriteAt keeping it.    *)
(***************************************************************************)
IsPlainFile(d, name) ==
    /\ OsStat(d, name).err = "nil"
    /\ ~OsStat(d, name).isDir
    /\ OsStat(d, name).size > 0
    /\ SidecarAt(d, name)[1] = 0

C14_OpenStep ==
    last'.op \in {"Open", "OpenFile"} /\ IsPlainFile(disk, last'.name)
    =>  /\ last'.err = "nil"
        /\ last'.h # 0
        /\ handles'[last'.h].encFileMeta = NoMeta
        /\ SidecarAt(disk', last'.name)[1] = 0

C14_TransferStep ==
    /\ last'.op \in {"Read", "ReadAt", "Write", "WriteAt"}
    /\ last'.seq # last.seq
    /\ handles[last'.h].encFileMeta = NoMeta
    /\ ~handles[last'.h].isDir
    /\ ~handles[last'.h].closed
    =>  Let(handles[last'.h], LAMBDA f :
        Let(handles'[last'.h], LAMBDA g :
            /\ last'.op = "Read" =>
                   /\ SubSeq(last'.p, 1, last'.n)
                          = Stored(disk, f.file, f.file.off, last'.n)
                   /\ last'.err = "nil" => g.filePos = f.filePos + last'.n
            /\ last'.op = "ReadAt" =>
                   /\ SubSeq(last'.p, 1, last'.n)
                          = Stored(disk, f.file, last'.off, last'.n)
                   /\ g.filePos = f.filePos
            /\ last'.op = "Write" /\ last'.err = "nil" =>
                   /\ last'.n = Len(last'.arg)
                   /\ Stored(disk', f.file, StorePos(f.file), last'.n)
                          = last'.arg
                   /\ g.filePos = f.filePos + last'.n
            /\ last'.op = "WriteAt" /\ last'.err = "nil" =>
                   /\ last'.n = Len(last'.arg)
                   /\ Stored(disk', f.file, last'.off, last'.n) = last'.arg
                   /\ g.filePos = f.filePos))

C14_NoSidecarPassthrough == [][C14_OpenStep /\ C14_TransferStep]_vars

\* a handle with no record on the plaintext file "f" wrote "HELLO" at its
\* start: the backend holds these bytes and the file has no sidecar
C14_Witness ==
    /\ last.op = "Write" /\ last.err = "nil" /\ last.n = Len(Upper)
    /\ LastHandle.encFileMeta = NoMeta
    /\ LastHandle.filePos = Len(Upper)
    /\ Stored(disk, LastHandle.file, 0, Len(Upper)) = Upper
    /\ SidecarAt(disk, FStr)[1] = 0


(***************************************************************************)
(* C15: on an open handle of a directory, Read, ReadAt, Write, WriteAt,    *)
(* WriteString, Seek and Truncate fail with the is-a-directory error       *)
(* (syscall.EISDIR) and leave the cursor and the backend as they were.     *)
(***************************************************************************)
ContentOps ==
    {"Read", "ReadAt", "Write", "WriteAt", "WriteString", "Seek", "Truncate"}

C15_DirStepFor(ops) ==
    /\ last'.op \in ops
    /\ last'.seq # last.seq
    /\ handles[last'.h].isDir
    /\ ~handles[last'.h].closed
    =>  /\ last'.err = "EISDIR"
        /\ handles'[last'.h].filePos = handles[last'.h].filePos
        /\ disk' = disk

C15_DirectoryRefused == [][C15_DirStepFor(ContentOps)]_vars


(***************************************************************************)
(* C16: nonceAdd(iv, k) is the 16-byte big-endian encoding of              *)
(* (IV + k) mod 2^128: the low half is (low + k) mod 2^64 and the high     *)
(* half is one more exactly when low + k >= 2^64; so nonceAdd(iv, 0) = iv  *)
(* and low + k = 2^64 - 1 carries nothing.                                 *)
(***************************************************************************)
\* a + b modulo 256^Len(a), both big-endian byte sequences of one length
BigEndianSum(a, b) == U64AddC(a, b, Len(a), 0)

C16_NonceAddIsSum ==
    last.op = "nonceAdd" =>
        last.p = BigEndianSum(last.arg[1], ToU64(0) \o last.arg[2])


(***************************************************************************)
(* C17: when Read or ReadAt on a handle with active content encryption     *)
(* reports n > 0 bytes, the first n bytes of the buffer are the stored     *)
(* bytes of the range XOR keystream(key, iv, offset, n), the plaintext;    *)
(* also when n is less than the buffer's length because the range runs     *)
(* past the end of the file and the backend reports end of file with the   *)
(* bytes.                                                                  *)
(***************************************************************************)
C17_ReadIsDecrypted ==
    last.op \in {"Read", "ReadAt"} /\ last.n > 0 /\ LastActive =>
        SubSeq(last.p, 1, last.n) =
            XorPrefix(Stored(disk, LastHandle.file, last.off, last.n),
                      Keystream(LastHandle, last.off, last.n), last.n)


(***************************************************************************)
(* C18: for every open handle of a file, whatever the flags it was opened  *)
(* with, the cursor is the backend offset at which the next Read or Write  *)
(* transfers bytes; so the bytes a Write stored are the caller's bytes XOR *)
(* the keystream of the offset where the backend holds them.               *)
(***************************************************************************)
C18_CursorIsBackendOffset ==
    \A h \in DOMAIN handles :
        ~handles[h].closed /\ ~handles[h].isDir =>
            /\ handles[h].filePos = handles[h].file.off
            /\ handles[h].file.wr =>
                   handles[h].filePos = StorePos(handles[h].file)

\* the offset at which the backend holds the bytes of the last Write
WrittenAt ==
    IF LastHandle.file.append
    THEN Len(DataOf(disk, LastHandle.file)) - last.n
    ELSE last.off

C18_WriteUsesStoredOffset ==
    last.op = "Write" /\ last.err = "nil" /\ last.n > 0 /\ LastActive =>
        Stored(disk, LastHandle.file, WrittenAt, last.n) =
            XorPrefix(last.arg, Keystream(LastHandle, WrittenAt, last.n),
                      last.n)

C18_CursorTracksBackend ==
    C18_CursorIsBackendOffset /\ C18_WriteUsesStoredOffset


(***************************************************************************)
(* C19: a Remove or Rename call, successful or failed, keeps sidecars in   *)
(* lockstep with content: afterwards every content file that exists and    *)
(* holds bytes written under an IV has under its name the sidecar with     *)
(* that IV, and a content file whose bytes were written under none has no  *)
(* sidecar.                                                                *)
(***************************************************************************)
\* the content files of a disk: its regular files that no suffix marks as
\* a sidecar
ContentFiles(d) ==
    {q \in DOMAIN d.dirents :
        /\ q # RootPath
        /\ NodeAt(d, q).kind = "file"
        /\ ~HasEncFileExt(AbsName(q))}

\* the tags under which the bytes of the file at q were written
TagsAt(d, pl, q) ==
    {pl[d.dirents[q]][i].tag : i \in 1 .. Len(NodeAt(d, q).data)}

Lockstep(d, pl) ==
    \A q \in ContentFiles(d) :
        \A t \in TagsAt(d, pl, q) :
            IF Len(t) = 2
            THEN /\ HasRecord(d, AbsName(q))
                 /\ openEncFileMeta(d, AbsName(q)).meta.iv = t[2]
            ELSE SidecarAt(d, AbsName(q))[1] = 0

C19_LockstepStep ==
    last'.op \in {"Remove", "Rename"} /\ Lockstep(disk, plain)
    => Lockstep(disk', plain')

C19_SidecarLockstep == [][C19_LockstepStep]_vars


(***************************************************************************)
(* C20: when the sidecar of a file exists and cannot be read or            *)
(* deserialized, Create, Open and OpenFile of the file fail and leave the  *)
(* sidecar as it was, also when the file is created or is empty: a corrupt *)
(* sidecar is not replaced by a fresh IV.                                  *)
(***************************************************************************)
HasCorruptSidecar(d, name) ==
    SidecarAt(d, name)[1] # 0 /\ openEncFileMeta(d, name).err # "nil"

C20_CorruptStep ==
    /\ last'.op \in {"Create", "Open", "OpenFile"}
    /\ HasCorruptSidecar(disk, last'.name)
    =>  /\ last'.err # "nil"
        /\ SidecarAt(disk', last'.name) = SidecarAt(disk, last'.name)

C20_CorruptSidecarIsFatal == [][C20_CorruptStep]_vars


(***************************************************************************)
(* C21: RemoveAll(p), where p after the facade's path transform is an      *)
(* existing regular file, does what Remove(p) does: it returns the error   *)
(* of Remove(p) and leaves the disk Remove(p) leaves.  The path transform  *)
(* (base-directory resolution or name encryption) is applied once.         *)
(***************************************************************************)
\* the caller's path after the facade's path transform
Transformed(cfg, d, cache, name) ==
    IF cfg.variant = "basedir" THEN resolve(cfg, name)
    ELSE EncryptFileName(cfg.key, d, cache, name).name

DesignatesFile(cfg, d, cache, name) ==
    /\ Transformed(cfg, d, cache, name) # EmptyStr
    /\ OsStat(d, Transformed(cfg, d, cache, name)).err = "nil"
    /\ ~OsStat(d, Transformed(cfg, d, cache, name)).isDir

C21_RemoveAllStep ==
    /\ last'.op = "RemoveAll"
    /\ DesignatesFile(encFs, disk, pathExistsMap, last'.name)
    =>  /\ last'.err = FsRemove(last'.name).err
        /\ disk' = FsRemove(last'.name).disk

C21_RemoveAllIsRemove == [][C21_RemoveAllStep]_vars


(***************************************************************************)
(* C22: Readdir(count) and Readdirnames(count) with count > 0 drop no      *)
(* entry: every entry the backend handed over that is not a sidecar is     *)
(* returned, and a result with no entry and no error is returned only when *)
(* the directory has no entry left that is not a sidecar.  The backend     *)
(* hands over each entry once, so repeated calls then return every such    *)
(* entry exactly once.                                                     *)
(***************************************************************************)
\* the entries of last.p as backend names
ReturnedNames ==
    {last.p[i] : i \in 1 .. Len(last.p)}

\* what the call returns for the backend's entry name
ListedAs(name) ==
    IF last.op = "Readdir" THEN name ELSE EncFileInfoName(encFs, name)

\* the entries of the handle's directory the backend has not handed over
Remaining(f) == EntryNames(disk, f.file) \ f.file.seen

C22_NothingDropped ==
    last.op \in {"Readdir", "Readdirnames"} /\ last.err = "nil" /\ last.off > 0
    =>  /\ \A i \in 1 .. Len(last.arg) :
               ~HasEncFileExt(<<last.arg[i]>>) =>
                   ListedAs(last.arg[i]) \in ReturnedNames
        /\ last.n = 0 =>
               \A name \in Remaining(LastHandle) : HasEncFileExt(<<name>>)


(***************************************************************************)
(* C23: with name encryption off, every facade operation that takes a path *)
(* (Create, Open, OpenFile, Remove, RemoveAll, Rename for either name,     *)
(* Mkdir) rejects a name ending in ".__encfile" with the forbidden-name    *)
(* error before it touches the disk.                                       *)
(***************************************************************************)
PathOps == {"Create", "Open", "OpenFile", "Remove", "RemoveAll", "Rename",
            "Mkdir"}

C23_StepFor(ops) ==
    /\ encFs.key.fileNameIv = NoIv
    /\ last'.op \in ops
    /\ HasEncFileExt(last'.name) \/ HasEncFileExt(last'.name2)
    =>  /\ last'.err = "ErrFileForbiddenFileExt"
        /\ disk' = disk

C23_EveryPathOpRejectsSuffix == [][C23_StepFor(PathOps)]_vars


(***************************************************************************)
(* C24: with a name-IV configured, DecryptFileName returns unchanged every *)
(* segment that does not start with the marker "__ENCFS__", and every      *)
(* segment that starts with the marker but whose remainder is not the      *)
(* encoding of a name sealed under this key and name-IV (the marker stays  *)
(* attached); it returns a name for every input.                           *)
(***************************************************************************)
HasMarker(seg) == seg # <<>> /\ Head(seg) = ENCRYPTED_FILE_NAME_PREFIX

\* seg is the marker followed by the encoding of a name sealed under k
SealedBy(k, seg) ==
    /\ Len(seg) = 2
    /\ seg[2][1] = "b64"
    /\ seg = encryptFileNamePart(k, <<seg[2][2][3]>>)[1]

C24_SegmentsOf(segs) ==
    last.op = "DecryptFileName" /\ encFs.key.fileNameIv # NoIv
    =>  /\ Len(last.name2) = Len(last.name)
        /\ \A i \in 1 .. Len(last.name) :
               last.name[i] \in segs /\ ~SealedBy(encFs.key, last.name[i])
                   => last.name2[i] = last.name[i]

C24_UndecodableUnchanged ==
    C24_SegmentsOf({last.name[i] : i \in 1 .. Len(last.name)})


(***************************************************************************)
(* C25: the path-existence cache under concurrent callers.  At most one    *)
(* caller is between Lock and Unlock, and the cache is read and written    *)
(* only there; no path is passed to os.Stat twice; an entry, once          *)
(* recorded, keeps its boolean whatever is created or removed later; and   *)
(* EncryptFileName returns for an input what it returned for it before.    *)
(***************************************************************************)
C25_MutexHeldAlone == Cardinality(Holders(openers)) <= 1

\* every path passed to os.Stat, with the caller and the position
StatCalls ==
    UNION {{<<p, i>> : i \in 1 .. Len(openers[p].statted)} :
              p \in 1 .. MaxOpeners}

C25_StatOncePerPath ==
    \A c1 \in StatCalls, c2 \in StatCalls :
        openers[c1[1]].statted[c1[2]] = openers[c2[1]].statted[c2[2]]
            => c1 = c2

C25_CacheStep ==
    /\ \A q \in DOMAIN pathExistsMap :
           q \in DOMAIN pathExistsMap' /\ pathExistsMap'[q] = pathExistsMap[q]
    /\ pathExistsMap' # pathExistsMap =>
           \E p \in Holders(openers) : openers'[p].pc \in InMutex
    /\ last'.op = "EncryptFileName" /\ last'.seq # last.seq =>
           \A p \in 1 .. MaxOpeners :
               last'.name \in DOMAIN openers[p].results =>
                   openers[p].results[last'.name] = last'.name2

C25_CacheNeverInvalidated ==
    /\ [](C25_MutexHeldAlone /\ C25_StatOncePerPath)
    /\ [][C25_CacheStep]_vars

\* "/g" was recorded as missing, was created afterwards, and a later call
\* for it returned what an earlier call had returned
C25_Witness ==
    /\ last.op = "EncryptFileName"
    /\ last.name = <<EmptySeg>> \o GStr
    /\ last.name \in DOMAIN pathExistsMap
    /\ ~pathExistsMap[last.name]
    /\ OsStat(disk, last.name).err = "nil"
    /\ \E p \in 1 .. MaxOpeners :
           /\ p # last.h
           /\ last.name \in DOMAIN openers[p].results
           /\ openers[p].results[last.name] = last.name2


(***************************************************************************)
(* C26: with a name-IV, EncryptFileName of a clean absolute path returns   *)
(* the root unchanged and otherwise decides segment by segment, from the   *)
(* root down: the segment stays plaintext when the path made of the        *)
(* ancestors as returned (encrypted or not) and the plaintext segment      *)
(* exists, and else becomes the marker followed by the encoded sealed      *)
(* segment.  So the deepest existing plaintext prefix is left unchanged    *)
(* and a plaintext entry beneath an encrypted ancestor is found.           *)
(***************************************************************************)
\* the segment the claim expects at place i of the result
ExpectedSegment(k, d, name, result, i) ==
    IF OsStat(d, SubSeq(result, 1, i - 1) \o <<name[i]>>).err = "nil"
    THEN name[i]
    ELSE encryptFileNamePart(k, <<name[i]>>)[1]

C26_PathsOn(disks) ==
    /\ last.op = "EncryptFileName"
    /\ encFs.key.fileNameIv # NoIv
    /\ IsAbs(last.name)
    /\ PathClean(last.name) = last.name
    /\ disk \in disks
    =>  IF last.name = SlashStr THEN last.name2 = SlashStr
        ELSE /\ Len(last.name2) = Len(last.name)
             /\ \A i \in 2 .. Len(last.name) :
                    last.name2[i] =
                        ExpectedSegment(encFs.key, disk, last.name,
                                        last.name2, i)

C26_ProbeUnderEncryptedAncestors ==
    C26_PathsOn({EmptyDisk, DiskWithF, DiskWithMark, DiskWithEncG})


(***************************************************************************)
(* C27: for one IV, nonceAdd gives different 16-byte counter blocks to     *)
(* different 64-bit block indices, also when one or both of them carry     *)
(* into the high half; so two blocks of one file never get the same        *)
(* keystream block.                                                        *)
(***************************************************************************)
C27_PairStep ==
    /\ last.op = "nonceAdd"
    /\ last'.op = "nonceAdd"
    /\ last'.arg[1] = last.arg[1]
    /\ last'.arg[2] # last.arg[2]
    =>  /\ last'.p # last.p
        /\ Len(last'.p) = BlockSize
        /\ AesBlock(encFs.key.key, last'.p) # AesBlock(encFs.key.key, last.p)

C27_NonceAddInjective == [][C27_PairStep]_vars

\* the second of two calls for one IV carried into the high half where
\* the low half plus the index is exactly 2^64 - 1
C27_Witness ==
    /\ last.op = "nonceAdd"
    /\ last.seq = 2
    /\ U64Sub(MaxUint64, SubSeq(last.arg[1], 9, 16)) = last.arg[2]
    /\ SubSeq(last.p, 1, 8) # SubSeq(last.arg[1], 1, 8)

=============================================================================
